---------------------------- MODULE Spec2Model ----------------------------
(***************************************************************************)
(* A model of trello-sync: the one-way sync of Trello boards into a local  *)
(* vault of markdown files (services/trello_sync.py), the attachment       *)
(* downloader (services/attachments.py), the configuration manager         *)
(* (utils/config.py) and the command line (cli/commands.py).               *)
(*                                                                         *)
(* Text is modelled as a sequence of one-character strings, a path as the  *)
(* sequence of its symbols, an instant as a whole number of hours.         *)
(***************************************************************************)
EXTENDS Integers, Sequences, FiniteSets, TLC

VARIABLES
    config,     \* trello-sync.yaml: [exists, data], data the parsed mapping
    env,        \* the process environment: [tz, OBSIDIAN_ROOT]
    remote,     \* the boards, lists and cards of the remote service
    clock,      \* the wall clock, an instant
    files,      \* the local file system: path -> [kind, mtime, content]
    requests,   \* the HTTP requests the running command has issued
    pc,         \* the position of the running command
    st,         \* the locals of the running sync_board
    last,       \* what the last iteration of sync_board's card loop did
    result,     \* the value the last command returned
    args,       \* the arguments of the last function call
    ret         \* the value of the last function call

vars == <<config, env, remote, clock, files, requests, pc, st, last, result, args, ret>>

-----------------------------------------------------------------------------
(* Bounds of the model. *)

\* The clock stops advancing here.
MaxClock == 3


-----------------------------------------------------------------------------
(* Text. *)

\* formatting.py:29, the cap on a sanitized name.
SanitizeMaxLen == 100

Untitled == <<"u", "n", "t", "i", "t", "l", "e", "d">>

Uppercase ==
    <<"A", "B", "C", "D", "E", "F", "G", "H", "I", "J", "K", "L", "M",
      "N", "O", "P", "Q", "R", "S", "T", "U", "V", "W", "X", "Y", "Z">>

Lowercase ==
    <<"a", "b", "c", "d", "e", "f", "g", "h", "i", "j", "k", "l", "m",
      "n", "o", "p", "q", "r", "s", "t", "u", "v", "w", "x", "y", "z">>

DecimalDigits == <<"0", "1", "2", "3", "4", "5", "6", "7", "8", "9">>

Range(s) == {s[i] : i \in 1..Len(s)}

\* str.lower() of one character.
Lower(c) ==
    IF c \in Range(Uppercase)
    THEN Lowercase[CHOOSE i \in 1..Len(Uppercase) : Uppercase[i] = c]
    ELSE c

\* str.isalnum() of one ASCII character.
IsAlnum(c) == c \in Range(Uppercase) \cup Range(Lowercase) \cup Range(DecimalDigits)

RECURSIVE StripLeft(_, _)
StripLeft(s, cs) ==
    IF s # <<>> /\ Head(s) \in cs THEN StripLeft(Tail(s), cs) ELSE s

RECURSIVE StripRight(_, _)
StripRight(s, cs) ==
    IF s # <<>> /\ s[Len(s)] \in cs THEN StripRight(SubSeq(s, 1, Len(s) - 1), cs) ELSE s

\* str.strip(chars)
Strip(s, cs) == StripRight(StripLeft(s, cs), cs)

\* One pass of name.replace('--', '-'): non-overlapping, left to right, so
\* of a run of hyphens the first, the third, the fifth, ... stay.
ReplaceHyphenPairs(s) ==
    LET RunStart(i) == CHOOSE j \in 1..i :
                          /\ \A k \in j..i : s[k] = "-"
                          /\ j = 1 \/ s[j - 1] # "-"
        kept == {i \in 1..Len(s) : s[i] # "-" \/ (i - RunStart(i)) % 2 = 0}
        Nth(n) == CHOOSE i \in kept : Cardinality({j \in kept : j <= i}) = n
    IN  [n \in 1..Cardinality(kept) |-> s[Nth(n)]]

HasHyphenPair(s) == \E i \in 1..(Len(s) - 1) : s[i] = "-" /\ s[i + 1] = "-"

\* while '--' in name: name = name.replace('--', '-')
RECURSIVE CollapseHyphens(_)
CollapseHyphens(s) ==
    IF HasHyphenPair(s) THEN CollapseHyphens(ReplaceHyphenPairs(s)) ELSE s

MapSeq(s, F(_)) == [i \in 1..Len(s) |-> F(s[i])]

KeepNameChar(c) == IsAlnum(c) \/ c \in {" ", "-"}

SpaceToHyphen(c) == IF c = " " THEN "-" ELSE c

\* formatting.sanitize_file_name; the empty text stands for None as well.
sanitize_file_name(name) ==
    IF name = <<>> THEN Untitled
    ELSE LET lowered   == Strip(MapSeq(name, Lower), {" "})
             kept      == SelectSeq(lowered, KeepNameChar)
             hyphened  == MapSeq(kept, SpaceToHyphen)
             collapsed == CollapseHyphens(hyphened)
             trimmed   == Strip(collapsed, {"-"})
             capped    == IF Len(trimmed) > SanitizeMaxLen
                          THEN SubSeq(trimmed, 1, SanitizeMaxLen)
                          ELSE trimmed
         IN  IF capped = <<>> THEN Untitled ELSE capped

-----------------------------------------------------------------------------
(* Path templates.  A template is a sequence of symbols; a placeholder    *)
(* such as "{org}" is one symbol.                                          *)

RECURSIVE ReplaceSymbol(_, _, _)
ReplaceSymbol(template, symbol, value) ==
    IF template = <<>> THEN <<>>
    ELSE (IF Head(template) = symbol THEN value ELSE <<Head(template)>>)
         \o ReplaceSymbol(Tail(template), symbol, value)

\* config.resolve_path_template, for the variables sync_board passes.
resolve_path_template(template, variables) ==
    LET r1 == IF "org" \in DOMAIN variables
              THEN ReplaceSymbol(template, "{org}", variables["org"]) ELSE template
        r2 == IF "board" \in DOMAIN variables
              THEN ReplaceSymbol(r1, "{board}", variables["board"]) ELSE r1
        r3 == IF "column" \in DOMAIN variables
              THEN ReplaceSymbol(r2, "{column}", variables["column"]) ELSE r2
    IN  IF "card" \in DOMAIN variables
        THEN ReplaceSymbol(r3, "{card}", variables["card"]) ELSE r3

\* '20_tasks/Trello/{org}/{board}/{column}/{card}.md'
DefaultTargetPath ==
    <<"20_tasks/Trello/", "{org}", "/", "{board}", "/", "{column}", "/", "{card}", ".md">>

\* '.local_assets/Trello'
DefaultAssetsFolder == <<".local_assets/Trello">>

-----------------------------------------------------------------------------
(* The configuration file (utils/config.py).  A mapping is a function     *)
(* whose domain is the set of keys present; the empty text stands for an   *)
(* absent or null string.                                                  *)

\* dict.get(key, default)
Get(d, k, default) == IF k \in DOMAIN d THEN d[k] ELSE default

\* The directories that exist outside the vault's content.
ExistingDirs == {"/vault"}

\* config.load_config: the defaults when the file is missing, and
\* setdefault for each of the three keys when it is there.
load_config(cfg) ==
    LET data == IF cfg.exists THEN cfg.data ELSE <<>>
    IN  [obsidian_root         |-> Get(data, "obsidian_root", ""),
         default_assets_folder |-> Get(data, "default_assets_folder", DefaultAssetsFolder),
         boards                |-> Get(data, "boards", <<>>)]

\* The entries of boards whose board_id is board_id, by position.
MatchingEntries(boards, board_id) ==
    {i \in 1..Len(boards) : Get(boards[i], "board_id", "") = board_id}

Min(S) == CHOOSE x \in S : \A y \in S : x <= y

NoEntry == [found |-> FALSE, entry |-> <<>>]

\* A variant of get_board_config that hides a disabled entry.
get_board_config_hiding_disabled(cfg, board_id) ==
    LET boards == load_config(cfg).boards
        m      == MatchingEntries(boards, board_id)
    IN  IF m = {} \/ Get(boards[Min(m)], "enabled", TRUE) = FALSE
        THEN NoEntry
        ELSE [found |-> TRUE, entry |-> boards[Min(m)]]

\* config.get_board_config: the first entry whose board_id matches, else None.
get_board_config(cfg, board_id) ==
    LET boards == load_config(cfg).boards
        m      == MatchingEntries(boards, board_id)
    IN  IF m = {} THEN NoEntry ELSE [found |-> TRUE, entry |-> boards[Min(m)]]

\* config.get_obsidian_root: the config key overrides the environment; the
\* path must exist.  [ok, root].
get_obsidian_root(cfg, environment) ==
    LET fromConfig == load_config(cfg).obsidian_root
        root       == IF fromConfig # "" THEN fromConfig ELSE environment.OBSIDIAN_ROOT
    IN  IF root = "" \/ root \notin ExistingDirs
        THEN [ok |-> FALSE, root |-> ""]
        ELSE [ok |-> TRUE, root |-> root]

-----------------------------------------------------------------------------
(* Time.  A timestamp of the remote service is None, a string that does    *)
(* not parse, or an ISO string "<wall>+<off>" ("Z" is off = 0), which      *)
(* names the instant wall - off.                                           *)

NoDate == [kind |-> "none", wall |-> 0, off |-> 0]
BadDate == [kind |-> "bad", wall |-> 0, off |-> 0]
IsoDate(wall, off) == [kind |-> "iso", wall |-> wall, off |-> off]

\* The instant an ISO timestamp names.
Instant(d) == d.wall - d.off

\* datetime.fromtimestamp(t): the naive local time of instant t.
fromtimestamp(t, tz) == t + tz

\* datetime.fromisoformat(s.replace('Z', '+00:00')).replace(tzinfo=None):
\* the wall time as written, its offset dropped.
fromisoformat_naive(d) == d.wall


\* TrelloSync.should_sync_card
should_sync_card(fs, card_path, card_updated, tz) ==
    IF card_path \notin DOMAIN fs THEN TRUE
    ELSE LET file_mtime == fromtimestamp(fs[card_path].mtime, tz)
         IN  IF card_updated.kind # "iso" THEN TRUE
             ELSE fromisoformat_naive(card_updated) > file_mtime

-----------------------------------------------------------------------------
(* File names and the file system (services/attachments.py).               *)

RECURSIVE LastIndexOf(_, _)
\* str.rfind(c), 1-based; 0 when c does not occur.
LastIndexOf(s, c) ==
    IF s = <<>> THEN 0
    ELSE IF s[Len(s)] = c THEN Len(s)
    ELSE LastIndexOf(SubSeq(s, 1, Len(s) - 1), c)

\* Path(p).name: the final component.
PathName(s) == SubSeq(s, LastIndexOf(s, "/") + 1, Len(s))

\* Path(p).suffix: from the last dot of the name, unless the dot leads or ends it.
PathSuffix(s) ==
    LET n == PathName(s)
        i == LastIndexOf(n, ".")
    IN  IF 1 < i /\ i < Len(n) THEN SubSeq(n, i, Len(n)) ELSE <<>>

\* Path(p).stem
PathStem(s) ==
    LET n == PathName(s)
    IN  SubSeq(n, 1, Len(n) - Len(PathSuffix(s)))

\* Path(p).parent of a path of symbols: all before its last "/".
PathParent(p) == SubSeq(p, 1, LastIndexOf(p, "/") - 1)

KeepExtChar(c) == IsAlnum(c) \/ c \in {".", "-", "_"}

\* attachments.sanitize_filename
sanitize_filename(filename) ==
    sanitize_file_name(PathStem(filename))
        \o SelectSeq(MapSeq(PathSuffix(filename), Lower), KeepExtChar)

ImageExtensions ==
    {<<".", "p", "n", "g">>, <<".", "j", "p", "g">>, <<".", "g", "i", "f">>}

ImageMimeTypes == {"image/jpeg", "image/png", "image/gif"}

\* str.lower() on the MIME types the model uses.
MimeLower(m) == IF m = "IMAGE/PNG" THEN "image/png" ELSE m

\* attachments.is_image_file; the empty MIME type stands for None.
is_image_file(filename, mime_type) ==
    \/ MapSeq(PathSuffix(filename), Lower) \in ImageExtensions
    \/ (mime_type # "" /\ MimeLower(mime_type) \in ImageMimeTypes)

RECURSIVE Digits(_)
\* str(n) of a natural number
Digits(n) ==
    IF n < 10 THEN <<DecimalDigits[n + 1]>>
    ELSE Digits(n \div 10) \o <<DecimalDigits[(n % 10) + 1]>>

Exists(fs, path) == path \in DOMAIN fs

\* The while loop of get_unique_filename, from counter on: it leaves with
\* the first counter whose path does not exist, and of any Cardinality + 1
\* counters in a row one has a path that does not exist.
ProbeFrom(fs, target_dir, stem, ext, counter) ==
    LET new_path(k) == target_dir \o <<"/">> \o stem \o <<"_">> \o Digits(k) \o ext
        free == {k \in counter..(counter + Cardinality(DOMAIN fs)) :
                    ~Exists(fs, new_path(k))}
    IN  new_path(Min(free))

\* A variant that takes the first suffixed name without looking at it.
get_unique_filename_first_suffix(fs, target_dir, filename) ==
    LET target_path == target_dir \o <<"/">> \o filename
    IN  IF ~Exists(fs, target_path) THEN target_path
        ELSE target_dir \o <<"/">> \o PathStem(filename) \o <<"_", "1">>
             \o PathSuffix(filename)

\* A variant that returns the name asked for, taken or not.
get_unique_filename_as_asked(fs, target_dir, filename) ==
    target_dir \o <<"/">> \o filename

\* attachments.get_unique_filename
get_unique_filename(fs, target_dir, filename) ==
    LET target_path == target_dir \o <<"/">> \o filename
    IN  IF ~Exists(fs, target_path) THEN target_path
        ELSE ProbeFrom(fs, target_dir, PathStem(filename), PathSuffix(filename), 1)

Dir == [kind |-> "dir", mtime |-> 0, content |-> ""]

\* Path.mkdir(parents=True, exist_ok=True)
Mkdir(fs, path) ==
    IF Exists(fs, path) THEN fs
    ELSE [p \in DOMAIN fs \cup {path} |-> IF p = path THEN Dir ELSE fs[p]]

\* Writing a whole file at instant t.
WriteFile(fs, path, kind, content, t) ==
    [p \in DOMAIN fs \cup {path} |->
        IF p = path THEN [kind |-> kind, mtime |-> t, content |-> content] ELSE fs[p]]

\* attachments.get_asset_path: [fs, path]
get_asset_path(fs, attachment_name, assets_folder) ==
    [fs   |-> Mkdir(fs, assets_folder),
     path |-> assets_folder \o <<"/">> \o sanitize_filename(attachment_name)]

-----------------------------------------------------------------------------
(* The remote service.  A request is [method, endpoint, id].              *)

\* TrelloSync._request(method, endpoint): the request it sends.
Request(method, endpoint, id) == [method |-> method, endpoint |-> endpoint, id |-> id]

\* A variant that sends the downloads as POST.
HttpPost(endpoint, id) == Request("POST", endpoint, id)

\* requests.get / session.get in download_attachment
HttpGet(endpoint, id) == Request("GET", endpoint, id)

get_boards == Request("GET", "members/me/boards", "")
get_board_request(board_id) == Request("GET", "boards/{id}", board_id)
get_organization_request(org_id) == Request("GET", "organizations/{id}", org_id)
get_board_lists(board_id) == Request("GET", "boards/{id}/lists", board_id)
get_cards_in_list(list_id) == Request("GET", "lists/{id}/cards", list_id)
get_card(card_id) == Request("GET", "cards/{id}", card_id)
get_card_comments(card_id) == Request("GET", "cards/{id}/actions", card_id)
get_card_attachments(card_id) == Request("GET", "cards/{id}/attachments", card_id)
get_card_labels(card_id) == Request("GET", "cards/{id}/labels", card_id)
get_card_members(card_id) == Request("GET", "cards/{id}/members", card_id)
get_card_checklists(card_id) == Request("GET", "cards/{id}/checklists", card_id)
get_board_cards(board_id) == Request("GET", "boards/{id}/cards", board_id)

\* The requests of the per-card detail fetches.
DetailEndpoints ==
    {"cards/{id}", "cards/{id}/actions", "cards/{id}/attachments", "cards/{id}/labels",
     "cards/{id}/members", "cards/{id}/checklists"}

\* What a request of download_attachment fetches.
DownloadEndpoints ==
    {"url_as_is", "metadata", "metadata_url", "download_encoded", "download_plain",
     "url_with_auth"}

\* TrelloSync.get_board: the requests it sends; the organization is fetched
\* when the board has one (a failure of that fetch is swallowed).
get_board(board_id, org_id) ==
    IF org_id # ""
    THEN {get_board_request(board_id), get_organization_request(org_id)}
    ELSE {get_board_request(board_id)}

-----------------------------------------------------------------------------
(* attachments.download_attachment.  An attachment is                      *)
(* [id, name, url, isUpload, mimeType]; url is "" (none), "plain" (no key, *)
(* no token), "key", "token" or "keytoken".  http gives the outcome of     *)
(* each request: "ok", "http_error" (raise_for_status) or "conn_error".    *)
(* The result is [outcome, reqs, mkdir, opened, source]: the exception or  *)
(* "ok", the requests sent in order, whether the parent directory was      *)
(* made, whether target_path was opened for writing, and the request whose *)
(* response was written.                                                   *)

Download(outcome, reqs, mkdir, opened, source) ==
    [outcome |-> outcome, reqs |-> reqs, mkdir |-> mkdir, opened |-> opened,
     source |-> source]

HasKey(url) == url \in {"key", "keytoken"}
HasKeyAndToken(url) == url = "keytoken"

Raised(status) == IF status = "conn_error" THEN "ConnectionError" ELSE "HTTPError"

\* Lines 187-203: the download endpoint, name encoded and then plain.
DownloadByEndpoint(id, http, reqs) ==
    LET r3 == reqs \o <<HttpGet("download_encoded", id)>>
        r4 == r3 \o <<HttpGet("download_plain", id)>>
    IN  IF http["download_encoded"] = "ok" THEN Download("ok", r3, TRUE, TRUE, "download_encoded")
        ELSE IF http["download_encoded"] = "conn_error"
        THEN Download("ConnectionError", r3, TRUE, FALSE, "")
        ELSE IF http["download_plain"] = "ok"
        THEN Download("ok", r4, TRUE, TRUE, "download_plain")
        ELSE Download(Raised(http["download_plain"]), r4, TRUE, FALSE, "")

\* Lines 156-203: the strategies that need a card id.
DownloadByCard(id, http, reqs) ==
    LET r2a == reqs \o <<HttpGet("metadata", id)>>
        r2b == r2a \o <<HttpGet("metadata_url", id)>>
    IN  IF http["metadata"] = "conn_error" THEN Download("ConnectionError", r2a, TRUE, FALSE, "")
        ELSE IF http["metadata"] = "http_error" THEN DownloadByEndpoint(id, http, r2a)
        ELSE IF http["metadata"] = "ok_no_url" THEN DownloadByEndpoint(id, http, r2a)
        ELSE IF http["metadata_url"] = "ok" THEN Download("ok", r2b, TRUE, TRUE, "metadata_url")
        ELSE IF http["metadata_url"] = "conn_error"
        THEN Download("ConnectionError", r2b, TRUE, FALSE, "")
        ELSE DownloadByEndpoint(id, http, r2b)

\* A variant that makes the parent directory before it looks at the id.
MissingIdAfterMkdir(attachment) == Download("ValueError", <<>>, TRUE, FALSE, "")

\* Lines 120-121: the record has no id.
MissingId(attachment) == Download("ValueError", <<>>, FALSE, FALSE, "")

download_attachment(attachment, card_id, http) ==
    IF attachment.id = "" THEN MissingId(attachment)
    ELSE
    LET id   == attachment.id
        pre  == HasKeyAndToken(attachment.url)
        r1   == IF pre THEN <<HttpGet("url_as_is", id)>> ELSE <<>>
        s1   == IF pre THEN http["url_as_is"] ELSE "skipped"
        \* url = None when the pre-authenticated URL failed
        url  == IF s1 = "http_error" THEN "" ELSE attachment.url
        r5   == r1 \o <<HttpGet("url_with_auth", id)>>
    IN  IF s1 = "conn_error" THEN Download("ConnectionError", r1, TRUE, FALSE, "")
        ELSE IF url = "" \/ ~HasKey(url)
        THEN IF card_id # "" THEN DownloadByCard(id, http, r1)
             ELSE IF url = "" THEN Download("ValueError", r1, TRUE, FALSE, "")
             ELSE IF http["url_with_auth"] = "ok"
             THEN Download("ok", r5, TRUE, TRUE, "url_with_auth")
             ELSE Download(Raised(http["url_with_auth"]), r5, TRUE, FALSE, "")
        ELSE IF s1 = "ok" THEN Download("ok", r1, TRUE, TRUE, "url_as_is")
        \* a URL with a key and no token: no request was sent, response is unbound
        ELSE Download("UnboundLocalError", r1, TRUE, TRUE, "")

\* The file system after download_attachment(attachment, target_path, ...).
AfterDownload(fs, target_path, attachment, d, t) ==
    LET made == IF d.mkdir THEN Mkdir(fs, PathParent(target_path)) ELSE fs
    IN  IF ~d.opened THEN made
        ELSE WriteFile(made, target_path, "asset",
                       IF d.outcome = "ok" THEN attachment.id ELSE "", t)

\* One download into target_path: [fs, reqs, outcome].
Downloaded(fs, target_path, attachment, d, t) ==
    [fs      |-> AfterDownload(fs, target_path, attachment, d, t),
     reqs    |-> {d.reqs[k] : k \in 1..Len(d.reqs)},
     outcome |-> d.outcome]

-----------------------------------------------------------------------------
(* TrelloSync.sync_board.  The call runs as a process: SyncBoard takes it  *)
(* to the loop over the lists (lines 292-346), GetCardsInList fetches the  *)
(* cards of the next list (line 353), SyncCard is one iteration of the     *)
(* loop over its cards (lines 355-464), SyncReturn is line 466.            *)

NoFiles == [p \in {} |-> Dir]

Zero == [total_cards |-> 0, synced_cards |-> 0, skipped_cards |-> 0]

NoLast ==
    [card |-> "", path |-> <<>>, outcome |-> "none", failed_at |-> "none",
     uploads |-> 0, attempted |-> 0, dl_failed |-> 0, downloaded |-> {},
     before |-> NoFiles]

NoRun ==
    [run |-> 0, cmd |-> "", board_id |-> "", dry_run |-> FALSE, configured |-> FALSE,
     board_name |-> <<>>, workspace_name |-> <<>>, root |-> "",
     target |-> <<>>, assets |-> <<>>, lists |-> <<>>, li |-> 1, ci |-> 1,
     total_cards |-> 0, synced_cards |-> 0, skipped_cards |-> 0,
     error |-> "", files0 |-> NoFiles, prev |-> "none", given |-> <<<<>>, <<>>>>,
     org_ok |-> TRUE]

Finished == pc \in {"idle", "returned", "raised"}

\* 'unknown', the workspace name of lines 363 and 405 when there is none.
Unknown == <<"u", "n", "k", "n", "o", "w", "n">>

\* Lines 362-370: the destination of a card.
CardPath(root, target, workspace_name, board_name, list_name, card_name) ==
    LET path_vars ==
            [org    |-> sanitize_file_name(IF workspace_name # <<>>
                                           THEN workspace_name ELSE Unknown),
             board  |-> sanitize_file_name(board_name),
             column |-> sanitize_file_name(list_name),
             card   |-> sanitize_file_name(card_name)]
    IN  <<root, "/">> \o resolve_path_template(target, path_vars)

\* Lines 405-410: the assets folder of the board.
AssetsFolder(root, assets, workspace_name, board_name) ==
    LET assets_vars ==
            [org   |-> sanitize_file_name(IF workspace_name # <<>>
                                          THEN workspace_name ELSE Unknown),
             board |-> sanitize_file_name(board_name)]
    IN  <<root, "/">> \o resolve_path_template(assets, assets_vars)

\* A variant that syncs every board that has an entry.
BoardEnabledWhenFound(cfg, board_id) == get_board_config(cfg, board_id).found

\* Lines 292-309: the board is synced only with an entry that is not disabled.
BoardEnabled(cfg, board_id) ==
    LET board_config == get_board_config(cfg, board_id)
    IN  board_config.found /\ Get(board_config.entry, "enabled", TRUE)

\* A variant that recovers only from HTTP errors.
CaughtPerAttachmentHttpOnly == {"HTTPError"}

\* The exception classes the per-attachment handler of line 442 catches.
CaughtPerAttachment ==
    {"ValueError", "HTTPError", "ConnectionError", "UnboundLocalError"}


\* Lines 416-441: one upload, on file system fs.  [fs, reqs, outcome]
DownloadUpload(ap, attachment, folder, http, t) ==
    Downloaded(ap.fs, get_unique_filename(ap.fs, folder, PathName(ap.path)),
               attachment, download_attachment(attachment, "", http), t)

\* The handler of lines 442-444 on the outcome of one upload: the exception
\* that leaves the loop, or "" when the loop goes on.
Uncaught(outcome) ==
    IF outcome = "ok" \/ outcome \in CaughtPerAttachment THEN "" ELSE outcome

\* acc after an upload u = [fs, reqs, outcome] of the attachment id.
AfterUpload(acc, u, id) ==
    [fs         |-> u.fs,
     reqs       |-> acc.reqs \cup u.reqs,
     downloaded |-> IF u.outcome = "ok" THEN acc.downloaded \cup {id} ELSE acc.downloaded,
     attempted  |-> acc.attempted + 1,
     dl_failed  |-> IF u.outcome = "ok" THEN acc.dl_failed ELSE acc.dl_failed + 1,
     raised     |-> Uncaught(u.outcome)]

\* Line 413: links and attachments without a URL are passed over.
IsUpload(attachment) == attachment.isUpload /\ attachment.url # ""

RECURSIVE ProcessUploads(_, _, _, _, _, _)
\* Lines 412-444: the loop over the attachments of a card, from attachment i
\* on.  acc is [fs, reqs, downloaded, attempted, dl_failed, raised].
ProcessUploads(attachments, i, folder, http, t, acc) ==
    IF i > Len(attachments) \/ acc.raised # "" THEN acc
    ELSE IF ~IsUpload(attachments[i])
    THEN ProcessUploads(attachments, i + 1, folder, http, t,
                        [acc EXCEPT !.attempted = @ + 1])
    ELSE ProcessUploads(attachments, i + 1, folder, http, t,
            AfterUpload(acc,
                        DownloadUpload(get_asset_path(acc.fs, attachments[i].name, folder),
                                       attachments[i], folder, http[i], t),
                        attachments[i].id))

\* The per-card fetches of lines 383-390, in order.
DetailFetches ==
    <<"get_card", "get_card_comments", "get_card_attachments", "get_card_labels",
      "get_card_members", "get_card_checklists">>

DetailRequest(name, card_id) ==
    CASE name = "get_card" -> get_card(card_id)
      [] name = "get_card_comments" -> get_card_comments(card_id)
      [] name = "get_card_attachments" -> get_card_attachments(card_id)
      [] name = "get_card_labels" -> get_card_labels(card_id)
      [] name = "get_card_members" -> get_card_members(card_id)
      [] name = "get_card_checklists" -> get_card_checklists(card_id)

\* The steps of lines 383-459 that can fail other than a download.  write_text
\* fails before it opens the file ("write_text") or after it has opened and
\* truncated it ("write_text_partial").
FailPoints ==
    {"get_card", "get_card_comments", "get_card_attachments", "get_card_labels",
     "get_card_members", "get_card_checklists", "generate_markdown", "write_text",
     "write_text_partial"}

\* Path.write_text that fails: the parent was made by line 458; the file is
\* untouched, or left empty.
FailedWrite(fs, path, fail_at, t) ==
    IF fail_at = "write_text" THEN Mkdir(fs, PathParent(path))
    ELSE IF fail_at = "write_text_partial"
    THEN WriteFile(Mkdir(fs, PathParent(path)), path, "card", "", t)
    ELSE fs

IndexOf(seq, x) == CHOOSE i \in 1..Len(seq) : seq[i] = x

\* The detail requests sent when the step fail_at fails ("none": all of them).
DetailRequestsUntil(fail_at, card_id) ==
    LET n == IF fail_at \in {DetailFetches[i] : i \in 1..Len(DetailFetches)}
             THEN IndexOf(DetailFetches, fail_at) ELSE Len(DetailFetches)
    IN  {DetailRequest(DetailFetches[i], card_id) : i \in 1..n}

\* A variant in which the workspace name of the configuration wins over the
\* one the caller supplied.
WorkspaceNameConfigFirst(workspace_name, entry, board, org_ok) ==
    IF Get(entry, "workspace_name", <<>>) # <<>> THEN entry["workspace_name"]
    ELSE IF workspace_name # <<>> THEN workspace_name
    ELSE IF board.org_id # "" /\ org_ok THEN board.org_name
    ELSE <<>>

\* Lines 311-321: the workspace name sync_board works with.
WorkspaceName(workspace_name, entry, board, org_ok) ==
    IF workspace_name # <<>> THEN workspace_name
    ELSE IF Get(entry, "workspace_name", <<>>) # <<>> THEN entry["workspace_name"]
    ELSE IF board.org_id # "" /\ org_ok THEN board.org_name
    ELSE <<>>

\* Lines 312-318: the requests sent to resolve the two names.
NameRequests(board_id, board_name, workspace_name, board) ==
    IF board_name = <<>> \/ workspace_name = <<>>
    THEN get_board(board_id, board.org_id)
    ELSE {}

Raise ==
    /\ pc' = "raised"
    /\ result' = Zero
    /\ UNCHANGED <<config, env, remote, clock, args, ret>>

\* Lines 271-346.  fail names the request that fails ("none": none does);
\* org_ok tells whether the fetch of the organization succeeds.
sync_board(board_id, board_name, workspace_name, dry_run, fail, org_ok) ==
    LET board_config == get_board_config(config, board_id)
        entry        == board_config.entry
        board        == remote.boards[board_id]
        names        == NameRequests(board_id, board_name, workspace_name, board)
        root         == get_obsidian_root(config, env)
        assets       == IF Get(entry, "assets_folder", <<>>) # <<>>
                        THEN entry["assets_folder"]
                        ELSE load_config(config).default_assets_folder
        run          == [NoRun EXCEPT
                            !.run = st.run + 1,
                            !.cmd = "sync",
                            !.board_id = board_id,
                            !.dry_run = dry_run,
                            !.given = <<board_name, workspace_name>>,
                            !.org_ok = org_ok,
                            !.files0 = files,
                            !.prev = IF st.run = 0 THEN "none"
                                     ELSE IF pc = "returned" /\ ~st.dry_run /\ st.configured
                                     THEN st.board_id
                                     ELSE "other"]
    IN  /\ last' = NoLast
        /\ IF ~BoardEnabled(config, board_id)
           THEN /\ fail = "none" /\ org_ok
                /\ pc' = "returned"
                /\ result' = Zero
                /\ requests' = {}
                /\ st' = run
                /\ UNCHANGED <<config, env, remote, clock, files, args, ret>>
           ELSE IF fail = "get_board"
           THEN /\ names # {} /\ org_ok
                /\ requests' = {get_board_request(board_id)}
                /\ st' = [run EXCEPT !.configured = TRUE, !.error = "HTTPError"]
                /\ UNCHANGED files
                /\ Raise
           ELSE IF ~root.ok
           THEN /\ fail = "none"
                /\ (org_ok \/ (names # {} /\ board.org_id # ""))
                /\ requests' = names
                /\ st' = [run EXCEPT !.configured = TRUE, !.error = "ConfigError"]
                /\ UNCHANGED files
                /\ Raise
           ELSE /\ (org_ok \/ (names # {} /\ board.org_id # ""))
                /\ requests' = names \cup {get_board_lists(board_id)}
                /\ UNCHANGED files
                /\ LET ready ==
                           [run EXCEPT
                               !.configured = TRUE,
                               !.board_name = IF board_name # <<>> THEN board_name
                                              ELSE board.name,
                               !.workspace_name =
                                   WorkspaceName(workspace_name, entry, board, org_ok),
                               !.root = root.root,
                               !.target = Get(entry, "target_path", DefaultTargetPath),
                               !.assets = assets,
                               !.lists = board.lists]
                   IN  IF fail = "get_board_lists"
                       THEN /\ st' = [ready EXCEPT !.error = "HTTPError", !.lists = <<>>]
                            /\ Raise
                       ELSE /\ st' = ready
                            /\ pc' = "lists"
                            /\ result' = Zero
                            /\ UNCHANGED <<config, env, remote, clock, args, ret>>

\* The sync command (cli/commands.py, lines 36-64) calls sync_board once.
SyncBoard(board_id, board_name, workspace_name, dry_run, fail, org_ok) ==
    /\ pc = "idle"
    /\ sync_board(board_id, board_name, workspace_name, dry_run, fail, org_ok)

\* The same sync command, run again after the first has returned; the remote
\* service answers it as it answered the first.
SyncBoardAgain(dry_run) ==
    /\ pc = "returned"
    /\ st.run = 1
    /\ sync_board(st.board_id, st.given[1], st.given[2], dry_run, "none", st.org_ok)

\* Line 353, and the end of a list without cards.
GetCardsInList(ok) ==
    /\ pc = "lists"
    /\ st.li <= Len(st.lists)
    /\ requests' = requests \cup {get_cards_in_list(st.lists[st.li].id)}
    /\ UNCHANGED <<files, last>>
    /\ IF ~ok
       THEN /\ st' = [st EXCEPT !.error = "HTTPError"]
            /\ Raise
       ELSE /\ st' = IF st.lists[st.li].cards = <<>>
                     THEN [st EXCEPT !.li = @ + 1]
                     ELSE [st EXCEPT !.ci = 1]
            /\ pc' = IF st.lists[st.li].cards = <<>> THEN "lists" ELSE "cards"
            /\ UNCHANGED <<config, env, remote, clock, result, args, ret>>

\* Lines 466-470.
SyncReturn ==
    /\ pc = "lists"
    /\ st.li > Len(st.lists)
    /\ pc' = "returned"
    /\ result' = [total_cards |-> st.total_cards, synced_cards |-> st.synced_cards,
                  skipped_cards |-> st.skipped_cards]
    /\ UNCHANGED <<config, env, remote, clock, files, requests, st, last, args, ret>>

Uniform(status) == [e \in DownloadEndpoints |-> status]

\* The loop of line 355 moves to the next card, or to the next list.
Advance(s) ==
    IF s.ci < Len(s.lists[s.li].cards)
    THEN [s EXCEPT !.ci = @ + 1]
    ELSE [s EXCEPT !.li = @ + 1, !.ci = 1]

LoopPc(s) == IF s.ci < Len(s.lists[s.li].cards) THEN "cards" ELSE "lists"


\* Lines 462-464: the failure of a card is raised again, and ends the call.
OnCardFailure(s, error) == [pc |-> "raised", st |-> [s EXCEPT !.error = error]]

\* What lines 356-444 compute for a card: its path, whether it is stale, and
\* the outcome acc of the loop over its attachments.
CardWork(s, fs, list, card, tz, t, outcome) ==
    [path    |-> CardPath(s.root, s.target, s.workspace_name, s.board_name,
                          list.name, card.name),
     stale   |-> should_sync_card(fs,
                     CardPath(s.root, s.target, s.workspace_name, s.board_name,
                              list.name, card.name),
                     card.dateLastActivity, tz),
     uploads |-> Cardinality({i \in 1..Len(card.attachments) : IsUpload(card.attachments[i])}),
     acc     |-> ProcessUploads(card.attachments, 1,
                     AssetsFolder(s.root, s.assets, s.workspace_name, s.board_name),
                     [i \in 1..Len(card.attachments) |-> Uniform(outcome[i])], t,
                     [fs |-> fs, reqs |-> {}, downloaded |-> {},
                      attempted |-> 0, dl_failed |-> 0, raised |-> ""])]

AllOk(outcome) == \A i \in DOMAIN outcome : outcome[i] = "ok"

\* The record of an iteration that got past the dry-run check.
Did(card, w, fs, outcome, failed_at) ==
    [card |-> card.id, path |-> w.path, outcome |-> outcome, failed_at |-> failed_at,
     uploads |-> w.uploads, attempted |-> w.acc.attempted, dl_failed |-> w.acc.dl_failed,
     downloaded |-> w.acc.downloaded, before |-> fs]

\* The record of an iteration that did not reach the attachments.
DidNot(card, w, fs, outcome, failed_at) ==
    [card |-> card.id, path |-> w.path, outcome |-> outcome, failed_at |-> failed_at,
     uploads |-> w.uploads, attempted |-> 0, dl_failed |-> 0, downloaded |-> {},
     before |-> fs]

\* A variant that counts a synced card as skipped and a skipped one as synced.
CountedSwapped(s, synced, skipped) ==
    [s EXCEPT !.total_cards = @ + 1, !.synced_cards = @ + skipped,
              !.skipped_cards = @ + synced]

\* A variant that counts a skipped card as synced too.
CountedBoth(s, synced, skipped) ==
    [s EXCEPT !.total_cards = @ + 1, !.synced_cards = @ + synced + skipped,
              !.skipped_cards = @ + skipped]

\* The counters after lines 356, 374, 378 and 460.
Counted(s, synced, skipped) ==
    [s EXCEPT !.total_cards = @ + 1, !.synced_cards = @ + synced,
              !.skipped_cards = @ + skipped]

\* Lines 355-464 for the card, given the work w of CardWork and the pair
\* f = [pc, st] of OnCardFailure.
SyncCardWith(card, w, fetched, fail_at, outcome) ==
    /\ \A i \in 1..Len(card.attachments) :
          ~IsUpload(card.attachments[i]) => outcome[i] = "ok"
    /\ IF ~w.stale
       THEN /\ fail_at = "none" /\ AllOk(outcome)
            /\ st' = Advance(Counted(st, 0, 1))
            /\ last' = DidNot(card, w, files, "skipped", "none")
            /\ pc' = LoopPc(st)
            /\ UNCHANGED <<files, requests>>
       ELSE IF st.dry_run
       THEN /\ fail_at = "none" /\ AllOk(outcome)
            /\ st' = Advance(Counted(st, 1, 0))
            /\ last' = DidNot(card, w, files, "dry_run", "none")
            /\ pc' = LoopPc(st)
            /\ UNCHANGED <<files, requests>>
       ELSE IF fail_at \in {DetailFetches[i] : i \in 1..Len(DetailFetches)}
       THEN /\ AllOk(outcome)
            /\ st' = OnCardFailure(Counted(st, 0, 0), "HTTPError").st
            /\ pc' = OnCardFailure(Counted(st, 0, 0), "HTTPError").pc
            /\ last' = DidNot(card, w, files, "raised", fail_at)
            /\ requests' = fetched
            /\ UNCHANGED files
       ELSE IF w.acc.raised # ""
       THEN /\ fail_at = "none"
            /\ st' = OnCardFailure(Counted(st, 0, 0), w.acc.raised).st
            /\ pc' = OnCardFailure(Counted(st, 0, 0), w.acc.raised).pc
            /\ last' = Did(card, w, files, "raised", "download")
            /\ requests' = fetched \cup w.acc.reqs
            /\ files' = w.acc.fs
       ELSE IF fail_at \in {"generate_markdown", "write_text", "write_text_partial"}
       THEN /\ st' = OnCardFailure(Counted(st, 0, 0), "Exception").st
            /\ pc' = OnCardFailure(Counted(st, 0, 0), "Exception").pc
            /\ last' = Did(card, w, files, "raised", fail_at)
            /\ requests' = fetched \cup w.acc.reqs
            /\ files' = FailedWrite(w.acc.fs, w.path, fail_at, clock)
       ELSE /\ st' = Advance(Counted(st, 1, 0))
            /\ last' = Did(card, w, files, "synced", "none")
            /\ pc' = LoopPc(st)
            /\ requests' = fetched \cup w.acc.reqs
            /\ files' = WriteFile(Mkdir(w.acc.fs, PathParent(w.path)),
                                  w.path, "card", card.id, clock)

\* Lines 355-464: one iteration of the loop over the cards of a list.
\* fail_at names the step that fails ("none": none does); outcome gives,
\* per attachment, the outcome of the request its download sends
\* (sync_board passes no card id, so a download sends at most one).
SyncCard(fail_at, outcome) ==
    /\ pc = "cards"
    \* a step that is not reached does not fail
    /\ st.dry_run => fail_at = "none"
    /\ fail_at \in {DetailFetches[i] : i \in 1..Len(DetailFetches)} \/ st.dry_run
          => AllOk(outcome)
    /\ SyncCardWith(st.lists[st.li].cards[st.ci],
                    CardWork(st, files, st.lists[st.li], st.lists[st.li].cards[st.ci],
                             env.tz, clock, outcome),
                    requests \cup DetailRequestsUntil(fail_at, st.lists[st.li].cards[st.ci].id),
                    fail_at, outcome)
    /\ UNCHANGED <<config, env, remote, clock, result, args, ret>>

\* Time passes between two commands.
Tick ==
    /\ pc = "returned"
    /\ st.run = 1
    /\ clock < MaxClock
    /\ clock' = clock + 1
    /\ UNCHANGED <<config, env, remote, files, requests, pc, st, last, result, args, ret>>

-----------------------------------------------------------------------------
(* The initial states of the sync pipeline: a configuration file, an       *)
(* environment, a remote board, an empty vault.                            *)

EmptyMap == [k \in {} |-> ""]

Attachment(id, name, url, isUpload, mimeType) ==
    [id |-> id, name |-> name, url |-> url, isUpload |-> isUpload, mimeType |-> mimeType]

\* Two uploads whose names sanitize to the same file name, a link, an upload
\* without an id.
UploadA == Attachment("a1", <<"a", ".", "p", "n", "g">>, "keytoken", TRUE, "image/png")
UploadB == Attachment("a2", <<"A", "!", ".", "P", "N", "G">>, "plain", TRUE, "")
LinkC == Attachment("a3", <<"t", "o">>, "plain", FALSE, "")
UploadNoId == Attachment("", <<"b", ".", "p", "d", "f">>, "plain", TRUE, "application/pdf")

Card(id, name, dateLastActivity, attachments) ==
    [id |-> id, name |-> name, dateLastActivity |-> dateLastActivity,
     attachments |-> attachments, subscribed |-> TRUE]

List(id, name, cards) == [id |-> id, name |-> name, cards |-> cards]

BoardIds == {"b1", "b2"}

\* The clock of the initial states; the remote cards were last active by then.
Now == 2

FirstCards ==
    {Card("c1", <<"T", "o">>, d, a) :
        d \in {IsoDate(Now, 0), NoDate},
        a \in {<<UploadA, UploadB>>, <<LinkC, UploadNoId>>}}

SecondCards ==
    {Card("c2", <<"t", "o", "!">>, d, <<>>) : d \in {IsoDate(1, 0), BadDate}}

\* The second card, whose name sanitizes to the name of the first, is in the
\* first list after the first card, or in the second list.
ListsOf(c1, c2, together) ==
    IF together
    THEN <<List("l1", <<"A">>, <<c1, c2>>), List("l2", <<"B">>, <<>>)>>
    ELSE <<List("l1", <<"A">>, <<c1>>), List("l2", <<"B">>, <<c2>>)>>

Board(name, org_id, org_name, lists) ==
    [name |-> name, org_id |-> org_id, org_name |-> org_name, lists |-> lists]

Remotes ==
    {[boards |-> [b \in BoardIds |->
                    IF b = "b1" THEN Board(<<"P">>, "o1", <<"O">>, ListsOf(c1, c2, together))
                    ELSE Board(<<"B">>, "", <<>>, <<>>)]] :
        c1 \in FirstCards, c2 \in SecondCards, together \in BOOLEAN}

CustomTargetPath == <<"{org}", "/", "{board}", "/", "{column}", "/", "{card}", ".md">>

EntryPlain == [board_id |-> "b1"]
EntryFull ==
    [board_id |-> "b1", enabled |-> TRUE, target_path |-> CustomTargetPath,
     workspace_name |-> <<"A", " ", "B">>, assets_folder |-> <<"assets/", "{board}">>]
EntryDisabled == [board_id |-> "b1", enabled |-> FALSE, target_path |-> DefaultTargetPath]
EntryOther == [board_id |-> "b2", enabled |-> FALSE]

ConfigFile(data) == [exists |-> TRUE, data |-> data]
NoConfigFile == [exists |-> FALSE, data |-> EmptyMap]

SyncConfigs ==
    {NoConfigFile,
     ConfigFile([boards |-> <<>>]),
     ConfigFile([boards |-> <<EntryPlain>>]),
     ConfigFile([boards |-> <<EntryOther, EntryFull>>, obsidian_root |-> "/vault"]),
     ConfigFile([boards |-> <<EntryDisabled>>, obsidian_root |-> "/vault"]),
     ConfigFile([boards |-> <<EntryPlain>>, obsidian_root |-> "/missing"])}

TimeZones == {-1, 0, 1}

Environments ==
    [tz : TimeZones, OBSIDIAN_ROOT : {"/vault"}] \cup {[tz |-> 0, OBSIDIAN_ROOT |-> ""]}

Init ==
    /\ config \in SyncConfigs
    /\ env \in Environments
    /\ remote \in Remotes
    /\ clock = Now
    /\ files = NoFiles
    /\ requests = {}
    /\ pc = "idle"
    /\ st = NoRun
    /\ last = NoLast
    /\ result = Zero
    /\ args = EmptyMap
    /\ ret = EmptyMap

\* The --board-name and --workspace-name options: neither, or both.
GivenNames == {<<<<>>, <<>>>>, <<<<"P", "2">>, <<"O", "2">>>>}

StartFailures == {"none", "get_board", "get_board_lists"}

CardOutcomes(n) == [1..n -> {"ok", "http_error", "conn_error"}]

Start ==
    \E board_id \in BoardIds, given \in GivenNames, dry_run \in BOOLEAN,
       fail \in StartFailures, org_ok \in BOOLEAN :
        SyncBoard(board_id, given[1], given[2], dry_run, fail, org_ok)

StartAgain == \E dry_run \in BOOLEAN : SyncBoardAgain(dry_run)

Cards ==
    /\ pc = "cards"
    /\ \E fail_at \in FailPoints \cup {"none"},
          outcome \in CardOutcomes(Len(st.lists[st.li].cards[st.ci].attachments)) :
            SyncCard(fail_at, outcome)

Lists == \E ok \in BOOLEAN : GetCardsInList(ok)

\* One sync command.
Next == Start \/ Lists \/ Cards \/ SyncReturn

Spec == Init /\ [][Next]_vars

\* The sync command, and the same command once more.
NextTwice == Next \/ StartAgain \/ Tick

SpecTwice == Init /\ [][NextTwice]_vars


-----------------------------------------------------------------------------
(* The other commands (cli/commands.py): list-boards, show-board,          *)
(* config-add, config-init, config-update and watching.  Each runs in one  *)
(* step; the requests it sends replace those of the command before it.     *)

\* The order in which members/me/boards lists the boards, which is also the
\* order of their ids when sorted.
BoardOrder == <<"b1", "b2">>

\* What members/me/boards returns for one board.
Listed(board_id) ==
    [id |-> board_id, name |-> remote.boards[board_id].name,
     idOrganization |-> remote.boards[board_id].org_id]

\* The end of a command: how it leaves the process and the requests it sent;
\* args keeps the configuration file the command found when it started.
Command(cmd, reqs, error) ==
    /\ requests' = reqs
    /\ st' = [NoRun EXCEPT !.run = st.run + 1, !.cmd = cmd, !.error = error]
    /\ pc' = IF error = "" THEN "returned" ELSE "raised"
    /\ args' = [found |-> config]
    /\ UNCHANGED <<env, remote, clock, last, result>>

\* list_boards
ListBoardsCommand(ok) ==
    /\ pc = "idle"
    /\ Command("list-boards", {get_boards}, IF ok THEN "" ELSE "HTTPError")
    /\ UNCHANGED <<config, files, ret>>

\* show_board
ShowBoardCommand(board_id, fail) ==
    /\ pc = "idle"
    /\ Command("show-board",
               IF fail = "get_board" THEN {get_board_request(board_id)}
               ELSE get_board(board_id, remote.boards[board_id].org_id)
                    \cup {get_board_lists(board_id)},
               IF fail = "none" THEN "" ELSE "HTTPError")
    /\ UNCHANGED <<config, files, ret>>

\* The configuration config_add and config_init start from without a file.
FreshConfig ==
    [obsidian_root |-> "", default_assets_folder |-> DefaultAssetsFolder,
     boards |-> <<>>]

\* board.get('organization', {}).get('displayName', '') after get_board
OrgName(board, org_ok) ==
    IF board.org_id # "" /\ org_ok THEN board.org_name ELSE <<>>

\* d[k] = v
WithField(d, k, v) == [x \in DOMAIN d \cup {k} |-> IF x = k THEN v ELSE d[x]]

\* A key that is written only when its text is not empty.
Optional(k, v) == IF v # <<>> THEN k :> v ELSE EmptyMap

Max(S) == CHOOSE x \in S : \A y \in S : y <= x

\* The integers of S in increasing order.
Ascending(S) ==
    [k \in 1..Cardinality(S) |-> CHOOSE x \in S : Cardinality({y \in S : y < x}) = k - 1]

\* The keys of the dict of entries by board id, in the order of insertion:
\* an entry without id is left out, a later entry replaces an earlier one.
ExistingIds(boards) ==
    LET first == {i \in 1..Len(boards) :
                    /\ Get(boards[i], "board_id", "") # ""
                    /\ \A j \in 1..(i - 1) :
                         Get(boards[j], "board_id", "") # boards[i]["board_id"]}
    IN  [k \in 1..Cardinality(first) |-> boards[Ascending(first)[k]]["board_id"]]

ExistingEntry(boards, board_id) == boards[Max(MatchingEntries(boards, board_id))]

\* s sorted by Before; elements that do not differ keep their order.
SortedBy(s, Before(_, _)) ==
    LET rank(i) == 1 + Cardinality({j \in 1..Len(s) :
                        \/ Before(s[j], s[i])
                        \/ (~Before(s[i], s[j]) /\ j < i)})
    IN  [k \in 1..Len(s) |-> s[CHOOSE i \in 1..Len(s) : rank(i) = k]]

\* The code point order of the characters of the names.
Ordinal(c) ==
    LET chars == DecimalDigits \o Uppercase \o Lowercase
    IN  IF c \in Range(chars) THEN CHOOSE i \in 1..Len(chars) : chars[i] = c ELSE 0

RECURSIVE TextLess(_, _)
\* a < b for two strings
TextLess(a, b) ==
    IF b = <<>> THEN FALSE
    ELSE IF a = <<>> THEN TRUE
    ELSE IF Head(a) = Head(b) THEN TextLess(Tail(a), Tail(b))
    ELSE Ordinal(Head(a)) < Ordinal(Head(b))

NameBefore(a, b) == TextLess(a.name, b.name)

\* The prompts of config_add: the target path and the workspace name typed.
Answers ==
    {[target_path |-> DefaultTargetPath, workspace_name |-> <<>>],
     [target_path |-> CustomTargetPath, workspace_name |-> <<"W">>]}

\* A variant that appends the entry whether or not the board has one.
ConfigAddCommandAppending(board_id, target_path, workspace_name, assets_folder, enabled, answer, ok, org_ok) ==
    LET data      == IF config.exists THEN config.data ELSE FreshConfig
        board     == remote.boards[board_id]
        asks      == target_path = <<>>
        suggested == IF workspace_name # <<>> THEN workspace_name
                     ELSE IF asks THEN OrgName(board, org_ok) ELSE <<>>
        workspace == IF suggested # <<>> THEN suggested ELSE answer.workspace_name
        boards    == Get(data, "boards", <<>>)
        board_config ==
            [board_id |-> board_id, enabled |-> enabled,
             target_path |-> IF asks THEN answer.target_path ELSE target_path]
            @@ Optional("workspace_name", workspace)
            @@ Optional("assets_folder", assets_folder)
    IN  /\ pc = "idle"
        /\ ~asks => ok /\ org_ok
        /\ ~ok => org_ok
        /\ Command("config-add",
                   IF ~asks THEN {}
                   ELSE IF ok THEN get_board(board_id, board.org_id)
                   ELSE {get_board_request(board_id)},
                   IF ok THEN "" ELSE "HTTPError")
        /\ config' = IF ~ok THEN config
                     ELSE ConfigFile(WithField(data, "boards", Append(boards, board_config)))
        /\ UNCHANGED <<files, ret>>

\* config_add, lines 163-257.  ok: the board is fetched.
ConfigAddCommand(board_id, target_path, workspace_name, assets_folder, enabled, answer, ok, org_ok) ==
    LET data      == IF config.exists THEN config.data ELSE FreshConfig
        board     == remote.boards[board_id]
        asks      == target_path = <<>>
        suggested == IF workspace_name # <<>> THEN workspace_name
                     ELSE IF asks THEN OrgName(board, org_ok) ELSE <<>>
        workspace == IF suggested # <<>> THEN suggested ELSE answer.workspace_name
        boards    == Get(data, "boards", <<>>)
        m         == MatchingEntries(boards, board_id)
        board_config ==
            [board_id |-> board_id, enabled |-> enabled,
             target_path |-> IF asks THEN answer.target_path ELSE target_path]
            @@ Optional("workspace_name", workspace)
            @@ Optional("assets_folder", assets_folder)
    IN  /\ pc = "idle"
        \* a step that is not reached does not fail
        /\ ~asks => ok /\ org_ok
        /\ ~ok => org_ok
        /\ Command("config-add",
                   IF ~asks THEN {}
                   ELSE IF ok THEN get_board(board_id, board.org_id)
                   ELSE {get_board_request(board_id)},
                   IF ok THEN "" ELSE "HTTPError")
        /\ config' = IF ~ok THEN config
                     ELSE ConfigFile(WithField(data, "boards",
                              IF m # {} THEN [boards EXCEPT ![Min(m)] = board_config]
                              ELSE Append(boards, board_config)))
        /\ UNCHANGED <<files, ret>>

\* A variant that makes the entry enabled.
NewBoardConfigEnabled(board_id, board_name, org_name) ==
    [board_id |-> board_id, board_name |-> board_name, enabled |-> TRUE,
     target_path |-> DefaultTargetPath, org |-> org_name, workspace_name |-> org_name]

\* The entry config_init and config_update make for a board that has none.
NewBoardConfig(board_id, board_name, org_name) ==
    [board_id |-> board_id, board_name |-> board_name, enabled |-> FALSE,
     target_path |-> DefaultTargetPath, org |-> org_name, workspace_name |-> org_name]

\* config_init, lines 310-330: an entry of the file brought up to date.
InitUpdated(board_config, board_name, org_name) ==
    LET named == WithField(WithField(board_config, "board_name", board_name),
                           "org", org_name)
    IN  IF "workspace_name" \in DOMAIN named THEN named
        ELSE WithField(named, "workspace_name", org_name)

\* config_init, lines 431-445: an entry as the command writes it.
InitWritten(board) ==
    [board_id |-> board["board_id"], org |-> Get(board, "org", <<>>),
     enabled |-> Get(board, "enabled", FALSE),
     target_path |-> Get(board, "target_path", DefaultTargetPath)]
    @@ Optional("board_name", Get(board, "board_name", <<>>))
    @@ Optional("workspace_name", Get(board, "workspace_name", <<>>))
    @@ Optional("assets_folder", Get(board, "assets_folder", <<>>))

\* A variant that keeps the entries of the boards the service no longer lists.
InitMergedKeeping(boards, org_ok) ==
    LET existing == Range(ExistingIds(boards))
        Final(board_id) ==
            IF board_id \in existing
            THEN InitUpdated(ExistingEntry(boards, board_id),
                             remote.boards[board_id].name,
                             OrgName(remote.boards[board_id], org_ok))
            ELSE NewBoardConfig(board_id, remote.boards[board_id].name,
                                OrgName(remote.boards[board_id], org_ok))
        Gone(board) == Get(board, "board_id", "") \notin Range(BoardOrder) \cup {""}
    IN  MapSeq(BoardOrder, Final) \o SelectSeq(boards, Gone)

\* config_init, lines 287-363: the boards of the file and of the service.
InitMerged(boards, org_ok) ==
    LET existing == Range(ExistingIds(boards))
        Final(board_id) ==
            IF board_id \in existing
            THEN InitUpdated(ExistingEntry(boards, board_id),
                             remote.boards[board_id].name,
                             OrgName(remote.boards[board_id], org_ok))
            ELSE NewBoardConfig(board_id, remote.boards[board_id].name,
                                OrgName(remote.boards[board_id], org_ok))
    IN  MapSeq(BoardOrder, Final)

\* config_init, lines 365-395: every board of the service, by name.
InitFresh(org_ok) ==
    LET New(board) == NewBoardConfig(board.id, board.name,
                                     OrgName(remote.boards[board.id], org_ok))
    IN  MapSeq(SortedBy(MapSeq(BoardOrder, Listed), NameBefore), New)

\* The boards config_init fetches with get_board, in order.
InitFetched(merges, boards) ==
    LET existing == Range(ExistingIds(boards))
        Known(board_id) == board_id \in existing
        Missing(board_id) == board_id \notin existing
        Id(board) == board.id
    IN  IF merges
        THEN SelectSeq(ExistingIds(boards), LAMBDA b : b \in Range(BoardOrder))
             \o SelectSeq(BoardOrder, Missing)
        ELSE MapSeq(SortedBy(MapSeq(BoardOrder, Listed), NameBefore), Id)

\* The requests of config_init when its first get_board fails, or none does.
InitRequests(fetched, fail) ==
    IF fail = "get_boards" THEN {get_boards}
    ELSE IF fail = "get_board" THEN {get_boards, get_board_request(fetched[1])}
    ELSE {get_boards}
         \cup UNION {get_board(fetched[i], remote.boards[fetched[i]].org_id) :
                        i \in 1..Len(fetched)}

\* config_init, lines 262-464.
ConfigInitCommand(force, fail, org_ok) ==
    LET merges == config.exists /\ ~force
        cfg    == IF merges THEN load_config(config) ELSE FreshConfig
    IN  /\ pc = "idle"
        /\ fail # "none" => org_ok
        /\ Command(IF force THEN "config-init --force" ELSE "config-init",
                   InitRequests(InitFetched(merges, cfg.boards), fail),
                   IF fail = "none" THEN "" ELSE "HTTPError")
        /\ config' =
             IF fail # "none" THEN config
             ELSE ConfigFile(
                    [obsidian_root         |-> cfg.obsidian_root,
                     default_assets_folder |-> cfg.default_assets_folder,
                     boards |-> MapSeq(IF merges THEN InitMerged(cfg.boards, org_ok)
                                       ELSE InitFresh(org_ok),
                                       InitWritten)])
        /\ UNCHANGED <<files, ret>>

\* config_update, lines 636-654: an entry of the file brought up to date.
Updated(existing_config, board_name, org_name) ==
    LET named == WithField(WithField(WithField(existing_config,
                     "board_name", board_name), "workspace_name", org_name),
                     "org", org_name)
        abled == IF "enabled" \in DOMAIN named THEN named
                 ELSE WithField(named, "enabled", FALSE)
    IN  IF "target_path" \in DOMAIN abled THEN abled
        ELSE WithField(abled, "target_path", DefaultTargetPath)

\* What yaml.safe_load makes of a double-quoted scalar whose body, from
\* position i, is written as it is: a quote ends the scalar and leaves the
\* rest of the line behind it, a backslash starts an escape.
Unreadable == [ok |-> FALSE, text |-> <<>>]

RECURSIVE DoubleQuoted(_, _)
DoubleQuoted(body, i) ==
    LET Then(c, rest) == IF rest.ok THEN [ok |-> TRUE, text |-> <<c>> \o rest.text]
                         ELSE Unreadable
    IN  IF i > Len(body) THEN [ok |-> TRUE, text |-> <<>>]
        ELSE IF body[i] = "\"" THEN Unreadable
        ELSE IF body[i] # "\\" THEN Then(body[i], DoubleQuoted(body, i + 1))
        ELSE IF i = Len(body) THEN Unreadable
        ELSE IF body[i + 1] \in {"\\", "\""} THEN Then(body[i + 1], DoubleQuoted(body, i + 2))
        ELSE IF body[i + 1] = "n" THEN Then("\n", DoubleQuoted(body, i + 2))
        ELSE Unreadable

\* What yaml.safe_load makes of a plain scalar: the blanks around it go, a
\* "#" at its start or after a blank starts a comment, a colon before a
\* blank is a mapping where none is allowed; the empty scalar is null.
PlainScalar(text) ==
    LET body     == Strip(text, {" "})
        comments == {i \in 1..Len(body) :
                        body[i] = "#" /\ (i = 1 \/ body[i - 1] = " ")}
        value    == IF comments = {} THEN body
                    ELSE Strip(SubSeq(body, 1, Min(comments) - 1), {" "})
    IN  IF \E i \in 1..(Len(value) - 1) : value[i] = ":" /\ value[i + 1] = " "
        THEN Unreadable
        ELSE [ok |-> TRUE, text |-> value]

\* config.save_config, lines 176-201: the texts of an entry as they are
\* written between double quotes, and read.
SavedTexts(board_config) ==
    [k \in {"board_name", "org", "target_path", "assets_folder", "workspace_name"}
        \cap DOMAIN board_config |-> DoubleQuoted(board_config[k], 1)]

\* config.save_config, lines 176-201: an entry as it is written, and read.
SavedBoard(board_config) ==
    LET texts == SavedTexts(board_config)
        Read(k) == IF k \in DOMAIN texts THEN texts[k].text ELSE <<>>
    IN  [board_id |-> board_config["board_id"],
         enabled |-> Get(board_config, "enabled", FALSE),
         workspace_name |-> Read("workspace_name")]
        @@ Optional("board_name", Read("board_name"))
        @@ Optional("org", Read("org"))
        @@ (IF "target_path" \in DOMAIN board_config
            THEN "target_path" :> Read("target_path") ELSE EmptyMap)
        @@ Optional("assets_folder", Read("assets_folder"))

\* The file yaml.safe_load does not read.
InvalidYaml == [exists |-> TRUE, data |-> EmptyMap, error |-> "Invalid YAML in config file"]

\* config.save_config, with the file as load_config reads it: a "boards:"
\* with no entry under it is null, not a list.  The vault roots drawn are
\* paths that a plain scalar gives back as they are.
save_config(cfg) ==
    LET assets == PlainScalar(cfg.default_assets_folder)
        Ok(board_config) ==
            \A k \in DOMAIN SavedTexts(board_config) : SavedTexts(board_config)[k].ok
    IN  IF ~assets.ok \/ \E i \in 1..Len(cfg.boards) : ~Ok(cfg.boards[i])
        THEN InvalidYaml
        ELSE ConfigFile([default_assets_folder |-> assets.text]
                        @@ (IF cfg.boards = <<>> THEN "boards_scalar" :> "null"
                            ELSE "boards" :> MapSeq(cfg.boards, SavedBoard))
                        @@ (IF cfg.obsidian_root # "" THEN "obsidian_root" :> cfg.obsidian_root
                            ELSE EmptyMap))

\* config_update, lines 616-676: the boards of the file and of the service;
\* order is the order in which the set of board ids is iterated.
UpdateMerged(boards, order, org_ok) ==
    LET existing == Range(ExistingIds(boards))
        Known(board_id) == board_id \in existing
        Missing(board_id) == board_id \notin existing
        Old(board_id) == Updated(ExistingEntry(boards, board_id),
                                 remote.boards[board_id].name,
                                 OrgName(remote.boards[board_id], org_ok))
        New(board_id) == NewBoardConfig(board_id, remote.boards[board_id].name,
                                        OrgName(remote.boards[board_id], org_ok))
    IN  MapSeq(SelectSeq(order, Known), Old) \o MapSeq(SelectSeq(order, Missing), New)

\* The organizations of the boards listed.
OrgIds == {remote.boards[b].org_id : b \in Range(BoardOrder)} \ {""}

\* A variant that saves the file in a dry run too.
ConfigUpdateCommandSaving(dry_run, ok, org_ok, order) ==
    /\ pc = "idle"
    /\ ~ok => org_ok /\ order = BoardOrder
    /\ dry_run => order = BoardOrder
    /\ Command(IF dry_run THEN "config-update --dry-run" ELSE "config-update",
               IF ok THEN {get_boards} \cup {get_organization_request(o) : o \in OrgIds}
               ELSE {get_boards},
               IF ok THEN "" ELSE "HTTPError")
    /\ config' =
         IF ~ok THEN config
         ELSE save_config([load_config(config) EXCEPT
                              !.boards = UpdateMerged(@, order, org_ok)])
    /\ UNCHANGED <<files, ret>>

\* config_update, lines 524-691.  ok: the boards are listed; a failure of
\* the fetch of an organization gives it the empty name.
ConfigUpdateCommand(dry_run, ok, org_ok, order) ==
    /\ pc = "idle"
    /\ ~ok => org_ok /\ order = BoardOrder
    /\ dry_run => order = BoardOrder
    /\ Command(IF dry_run THEN "config-update --dry-run" ELSE "config-update",
               IF ok THEN {get_boards} \cup {get_organization_request(o) : o \in OrgIds}
               ELSE {get_boards},
               IF ok THEN "" ELSE "HTTPError")
    /\ config' =
         IF ~ok \/ dry_run THEN config
         ELSE save_config([load_config(config) EXCEPT
                              !.boards = UpdateMerged(@, order, org_ok)])
    /\ UNCHANGED <<files, ret>>

RECURSIVE CardsFrom(_, _, _)
\* boards/{id}/cards: the cards of the board with their list, those of the
\* user's subscriptions marked.
CardsFrom(board_id, lists, i) ==
    IF i > Len(lists) THEN <<>>
    ELSE LET OnBoard(card) ==
                 [card |-> card, idList |-> lists[i].id, board_id |-> board_id,
                  board_name |-> remote.boards[board_id].name]
         IN  MapSeq(lists[i].cards, OnBoard) \o CardsFrom(board_id, lists, i + 1)

Subscribed(c) == c.card.subscribed

RECURSIVE WatchedFrom(_)
\* TrelloSync.get_watched_cards, from the i-th board listed
WatchedFrom(i) ==
    IF i > Len(BoardOrder) THEN <<>>
    ELSE SelectSeq(CardsFrom(BoardOrder[i], remote.boards[BoardOrder[i]].lists, 1),
                   Subscribed)
         \o WatchedFrom(i + 1)

\* The order of two dateLastActivity strings: the later one first; a string
\* that is not a date sorts above a date.
DateOrdinal(d) == IF d.kind = "bad" THEN MaxClock + 1 ELSE d.wall

LaterFirst(a, b) == DateOrdinal(a.card.dateLastActivity) > DateOrdinal(b.card.dateLastActivity)

\* Comparing None with a string, or with None, is a TypeError.
SortRaises(watched) ==
    /\ Len(watched) >= 2
    /\ \E i \in 1..Len(watched) : watched[i].card.dateLastActivity.kind = "none"

\* 'Unknown', the name of a list that could not be fetched.
UnknownList == <<"U", "n", "k", "n", "o", "w", "n">>

\* Lines 526-565: the file of a watched card in the vault, as the table
\* links it; <<>> when it is not linked.
LocalLink(w, fs, root, entry, project_root, lists_ok, board_ok, org_ok) ==
    LET board == remote.boards[w.board_id]
        list  == CHOOSE l \in Range(board.lists) : l.id = w.idList
        workspace_name ==
            IF Get(entry, "workspace_name", <<>>) # <<>> THEN entry["workspace_name"]
            ELSE IF board_ok THEN OrgName(board, org_ok) ELSE <<>>
        card_path ==
            CardPath(root, Get(entry, "target_path", DefaultTargetPath),
                     workspace_name, w.board_name,
                     IF lists_ok THEN list.name ELSE UnknownList, w.card.name)
    IN  IF Exists(fs, card_path) /\ card_path[1] = project_root
        THEN SubSeq(card_path, 3, Len(card_path))
        ELSE <<>>

\* Lines 531-548: the requests sent for one watched card.
RowRequests(w, entry, board_ok) ==
    {get_board_lists(w.board_id)}
    \cup (IF Get(entry, "workspace_name", <<>>) # <<>> THEN {}
          ELSE IF board_ok
          THEN get_board(w.board_id, remote.boards[w.board_id].org_id)
          ELSE {get_board_request(w.board_id)})

\* The cards whose local file is looked for.
Located(w) ==
    /\ get_obsidian_root(config, env).ok
    /\ get_board_config(config, w.board_id).found

\* Lines 578-584: the card column is a link to the local file, or else to
\* the short URL of the card, or else the name alone.
CardDisplay(local_link, short_url) ==
    IF local_link # <<>> THEN "local"
    ELSE IF short_url # "" THEN "remote"
    ELSE "plain"

\* One row of the table, with the board the card is from.
Row(w, fs, project_root, lists_ok, board_ok, org_ok) ==
    LET local_link ==
            IF Located(w)
            THEN LocalLink(w, fs, get_obsidian_root(config, env).root,
                           get_board_config(config, w.board_id).entry,
                           project_root, lists_ok, board_ok, org_ok)
            ELSE <<>>
    IN  [card     |-> w.card.id,
         board    |-> w.board_name,
         board_id |-> w.board_id,
         link     |-> local_link,
         display  |-> CardDisplay(local_link, Get(w.card, "shortUrl", ""))]

\* The requests of generate_watching_file.
WatchingRequests(watched, fail, board_ok) ==
    IF fail = "get_boards" THEN {get_boards}
    ELSE IF fail = "get_board_cards" THEN {get_boards, get_board_cards(BoardOrder[1])}
    ELSE {get_boards} \cup {get_board_cards(b) : b \in Range(BoardOrder)}
         \cup (IF SortRaises(watched) THEN {}
               ELSE UNION {RowRequests(watched[i],
                                       get_board_config(config, watched[i].board_id).entry,
                                       board_ok) :
                              i \in {j \in 1..Len(watched) : Located(watched[j])}})

\* The directory of trello-sync.yaml, where watching.md goes by default.
ProjectRoot == "/project"

Outputs == {<<ProjectRoot, "/", "watching.md">>, <<"/vault", "/", "watching.md">>}

\* TrelloSync.generate_watching_file, lines 472-607, and the watching
\* command around it.  The rows of the table are kept in ret.
WatchingCommand(output_path, fail, lists_ok, board_ok, org_ok) ==
    LET watched == WatchedFrom(1)
        error   == IF fail # "none" THEN "HTTPError"
                   ELSE IF SortRaises(watched) THEN "TypeError" ELSE ""
        MakeRow(w) == Row(w, files, output_path[1], lists_ok, board_ok, org_ok)
    IN  /\ pc = "idle" \/ (pc = "returned" /\ st.cmd = "sync" /\ st.run = 1)
        \* a step that is not reached does not fail
        /\ error # "" => lists_ok /\ board_ok /\ org_ok
        /\ ~board_ok => org_ok
        /\ Command("watching", WatchingRequests(watched, fail, board_ok), error)
        /\ files' = IF error # "" THEN files
                    ELSE WriteFile(files, output_path, "watching", "watching.md", clock)
        /\ ret' = IF error # "" THEN ret
                  ELSE [path |-> output_path, card_count |-> Len(watched),
                        rows |-> MapSeq(SortedBy(watched, LaterFirst), MakeRow)]
        /\ UNCHANGED config

ListBoards == \E ok \in BOOLEAN : ListBoardsCommand(ok)

ShowBoard == \E board_id \in BoardIds, fail \in StartFailures : ShowBoardCommand(board_id, fail)

ConfigAdd ==
    \E board_id \in BoardIds, target_path \in {<<>>, CustomTargetPath},
       workspace_name \in {<<>>, <<"O", "2">>},
       assets_folder \in {<<>>, <<"assets">>}, enabled \in BOOLEAN,
       answer \in Answers, ok \in BOOLEAN, org_ok \in BOOLEAN :
        ConfigAddCommand(board_id, target_path, workspace_name, assets_folder,
                         enabled, answer, ok, org_ok)

ConfigInit ==
    \E force \in BOOLEAN, fail \in {"none", "get_boards", "get_board"},
       org_ok \in BOOLEAN :
        ConfigInitCommand(force, fail, org_ok)

ConfigUpdate ==
    \E dry_run \in BOOLEAN, ok \in BOOLEAN, org_ok \in BOOLEAN,
       order \in {BoardOrder, <<"b2", "b1">>} :
        ConfigUpdateCommand(dry_run, ok, org_ok, order)

Watching ==
    \E output_path \in Outputs, fail \in {"none", "get_boards", "get_board_cards"},
       lists_ok \in BOOLEAN, board_ok \in BOOLEAN, org_ok \in BOOLEAN :
        WatchingCommand(output_path, fail, lists_ok, board_ok, org_ok)

\* One command, and watching after a sync.
NextCommands ==
    Next \/ ListBoards \/ ShowBoard \/ ConfigAdd \/ ConfigInit \/ ConfigUpdate \/ Watching

SpecCommands == Init /\ [][NextCommands]_vars

-----------------------------------------------------------------------------
(* The configuration commands one after another: config-add, config-init   *)
(* and config-update on a configuration file whose entries have distinct   *)
(* ids, at most MaxCommands of them.                                       *)

MaxCommands == 2

\* An entry for a board that the service does not list.
EntryGone ==
    [board_id |-> "b3", enabled |-> TRUE, target_path |-> CustomTargetPath,
     board_name |-> <<"G">>]

EntryEnabledOther == [board_id |-> "b2", enabled |-> TRUE]

EntryNoId == [enabled |-> TRUE]

ConfigEntries ==
    {EntryPlain, EntryFull, EntryDisabled, EntryOther, EntryEnabledOther, EntryGone,
     EntryNoId}

\* No file, and the files of at most two entries with distinct ids.
ConfigInputs ==
    {NoConfigFile, ConfigFile([boards |-> <<>>])}
    \cup {ConfigFile([boards |-> <<e>>]) : e \in ConfigEntries}
    \cup {ConfigFile([boards |-> <<p[1], p[2]>>, obsidian_root |-> "/vault"]) :
            p \in {q \in ConfigEntries \X ConfigEntries :
                     Get(q[1], "board_id", "none") # Get(q[2], "board_id", "none")}}

\* The boards the service lists, without cards.
ConfigRemote ==
    [boards |-> [b \in BoardIds |->
                   IF b = "b1" THEN Board(<<"P">>, "o1", <<"O">>, <<>>)
                   ELSE Board(<<"B">>, "", <<>>, <<>>)]]

InitConfigure ==
    /\ config \in ConfigInputs
    /\ env = [tz |-> 0, OBSIDIAN_ROOT |-> "/vault"]
    /\ remote = ConfigRemote
    /\ clock = Now
    /\ files = NoFiles
    /\ requests = {}
    /\ pc = "idle"
    /\ st = NoRun
    /\ last = NoLast
    /\ result = Zero
    /\ args = EmptyMap
    /\ ret = EmptyMap

\* The command has ended and the next one is typed.
NextCommand ==
    /\ pc \in {"returned", "raised"}
    /\ st.run < MaxCommands
    /\ pc' = "idle"
    /\ UNCHANGED <<config, env, remote, clock, files, requests, st, last, result, args, ret>>

\* config-add with a target path given or asked for, and nothing else.
ConfigAddBoard ==
    \E board_id \in BoardIds, target_path \in {<<>>, CustomTargetPath},
       enabled \in BOOLEAN :
        ConfigAddCommand(board_id, target_path, <<>>, <<>>, enabled,
                         [target_path |-> DefaultTargetPath, workspace_name |-> <<>>],
                         TRUE, TRUE)

NextConfigure == ConfigAddBoard \/ ConfigInit \/ ConfigUpdate \/ NextCommand

SpecConfigure == InitConfigure /\ [][NextConfigure]_vars

-----------------------------------------------------------------------------
(* should_sync_card as a function: the file, the timestamp of the card and *)
(* the time zone of the machine are drawn, then the function is applied.   *)

NoRemote == [boards |-> EmptyMap]

CardFilePath == <<"/vault", "/", "c", ".md">>

Instants == 0..MaxClock

Timestamps == {NoDate, BadDate} \cup {IsoDate(w, o) : w \in Instants, o \in TimeZones}

InitShouldSync ==
    /\ config = NoConfigFile
    /\ env \in [tz : TimeZones, OBSIDIAN_ROOT : {"/vault"}]
    /\ remote = NoRemote
    /\ clock = MaxClock
    /\ files \in {NoFiles}
          \cup {WriteFile(NoFiles, CardFilePath, "card", "c1", m) : m \in Instants}
    /\ requests = {}
    /\ pc = "idle"
    /\ st = NoRun
    /\ last = NoLast
    /\ result = Zero
    /\ args \in [card_path : {CardFilePath}, card_updated : Timestamps]
    /\ ret = EmptyMap

ShouldSyncCard ==
    /\ pc = "idle"
    /\ ret' = should_sync_card(files, args.card_path, args.card_updated, env.tz)
    /\ pc' = "called"
    /\ UNCHANGED <<config, env, remote, clock, files, requests, st, last, result, args>>

SpecShouldSync == InitShouldSync /\ [][ShouldSyncCard]_vars

-----------------------------------------------------------------------------
(* get_board_config as a function of the configuration file and the id.    *)

EntryEnabled == [board_id |-> "b2", enabled |-> TRUE]
EntryWithoutId == [enabled |-> TRUE]

BoardEntries ==
    {EntryPlain, EntryFull, EntryDisabled, EntryOther, EntryEnabled, EntryWithoutId}

\* The lists of at most two entries.
BoardLists ==
    {<<>>} \cup {<<e>> : e \in BoardEntries}
           \cup {<<e, f>> : e \in BoardEntries, f \in BoardEntries}

InitBoardConfig ==
    /\ config \in {NoConfigFile} \cup {ConfigFile([boards |-> b]) : b \in BoardLists}
    /\ env = [tz |-> 0, OBSIDIAN_ROOT |-> "/vault"]
    /\ remote = NoRemote
    /\ clock = Now
    /\ files = NoFiles
    /\ requests = {}
    /\ pc = "idle"
    /\ st = NoRun
    /\ last = NoLast
    /\ result = Zero
    /\ args \in [board_id : {"b1", "b2", "b3"}]
    /\ ret = NoEntry

GetBoardConfig ==
    /\ pc = "idle"
    /\ ret' = get_board_config(config, args.board_id)
    /\ pc' = "called"
    /\ UNCHANGED <<config, env, remote, clock, files, requests, st, last, result, args>>

SpecBoardConfig == InitBoardConfig /\ [][GetBoardConfig]_vars

-----------------------------------------------------------------------------
(* attachments.process_attachments, the batch form of the per-attachment   *)
(* loop.  The result is [fs, reqs, processed]; a processed record is the   *)
(* attachment, with the fields it gained.  The call has no card id, so     *)
(* download_attachment has only the URL of the attachment to fetch.        *)

\* attachments.get_relative_asset_path: the path of the asset as seen from
\* the directory of the card: what is left of it below that directory, else
\* the way up to the root and down again.
get_relative_asset_path(card_path, asset_path) ==
    LET start == PathParent(card_path)
    IN  IF Len(asset_path) > Len(start) + 1
           /\ SubSeq(asset_path, 1, Len(start)) = start
           /\ asset_path[Len(start) + 1] = "/"
        THEN SubSeq(asset_path, Len(start) + 2, Len(asset_path))
        ELSE <<"..", "/">> \o asset_path

NoBatch == [fs |-> NoFiles, reqs |-> {}, processed |-> <<>>]

PassThrough(acc, attachment) ==
    [acc EXCEPT !.processed = Append(@, attachment)]

\* One upload: destination, unique name, download, and the fields gained.
ProcessUpload(acc, attachment, card_path, assets_folder, status, t) ==
    LET ap  == get_asset_path(acc.fs, attachment.name, assets_folder)
        u   == Downloaded(ap.fs,
                          get_unique_filename(ap.fs, assets_folder, PathName(ap.path)),
                          attachment,
                          download_attachment(attachment, "", Uniform(status)), t)
        to  == get_unique_filename(ap.fs, assets_folder, PathName(ap.path))
        got == IF u.outcome = "ok"
               THEN [local_path |-> get_relative_asset_path(card_path, to),
                     is_image   |-> is_image_file(attachment.name, attachment.mimeType),
                     asset_path |-> to]
               ELSE [download_error |-> u.outcome]
    IN  [fs        |-> u.fs,
         reqs      |-> acc.reqs \cup u.reqs,
         processed |-> Append(acc.processed, attachment @@ got)]

\* A variant that gives up on the batch after the first failure.
ProcessOneUntilFailure(acc, attachment, card_path, assets_folder, status, t) ==
    IF \E k \in 1..Len(acc.processed) : "download_error" \in DOMAIN acc.processed[k]
    THEN PassThrough(acc, attachment)
    ELSE IF IsUpload(attachment)
    THEN ProcessUpload(acc, attachment, card_path, assets_folder, status, t)
    ELSE PassThrough(acc, attachment)

\* One attachment of the batch.
ProcessOne(acc, attachment, card_path, assets_folder, status, t) ==
    IF IsUpload(attachment)
    THEN ProcessUpload(acc, attachment, card_path, assets_folder, status, t)
    ELSE PassThrough(acc, attachment)

RECURSIVE ProcessFrom(_, _, _, _, _, _, _)
ProcessFrom(attachments, i, card_path, assets_folder, http, t, acc) ==
    IF i > Len(attachments) THEN acc
    ELSE ProcessFrom(attachments, i + 1, card_path, assets_folder, http, t,
                     ProcessOne(acc, attachments[i], card_path, assets_folder, http[i], t))

process_attachments(fs, attachments, card_path, assets_folder, http, t) ==
    ProcessFrom(attachments, 1, card_path, assets_folder, http, t,
                [NoBatch EXCEPT !.fs = fs])

UploadNoUrl == Attachment("a4", <<"c", ".", "g", "i", "f">>, "", TRUE, "image/gif")

BatchAttachments == {UploadA, UploadB, LinkC, UploadNoId, UploadNoUrl}

Batches ==
    {<<>>} \cup {<<a>> : a \in BatchAttachments}
           \cup {<<a, b>> : a \in BatchAttachments, b \in BatchAttachments}

BatchAssets == <<"/vault", "/", "assets">>

\* The vault before the batch: empty, or with an asset of the same name.
BatchVaults ==
    {NoFiles,
     WriteFile(Mkdir(NoFiles, BatchAssets),
               BatchAssets \o <<"/", "a", ".", "p", "n", "g">>, "asset", "a0", 0)}

BatchCardPaths == {CardFilePath, <<"/vault", "/", "cards", "/", "c", ".md">>}

InitAttachments ==
    /\ config = NoConfigFile
    /\ env = [tz |-> 0, OBSIDIAN_ROOT |-> "/vault"]
    /\ remote = NoRemote
    /\ clock = Now
    /\ files \in BatchVaults
    /\ requests = {}
    /\ pc = "idle"
    /\ st = NoRun
    /\ last = NoLast
    /\ result = Zero
    /\ args \in [attachments : Batches, card_path : BatchCardPaths,
                 http : CardOutcomes(2)]
    /\ ret = <<>>

ProcessAttachments ==
    /\ pc = "idle"
    /\ LET b == process_attachments(files, args.attachments, args.card_path,
                                    BatchAssets, args.http, clock)
       IN  /\ files' = b.fs
           /\ requests' = requests \cup b.reqs
           /\ ret' = b.processed
    /\ pc' = "called"
    /\ UNCHANGED <<config, env, remote, clock, st, last, result, args>>

SpecAttachments == InitAttachments /\ [][ProcessAttachments]_vars

-----------------------------------------------------------------------------
(* get_unique_filename as a function of the directory's content and the    *)
(* name asked for.                                                         *)

\* The number of suffixed names the specification allows to be probed.
ProbeLimit == 1000

TestJpg == <<"t", "e", "s", "t", ".", "j", "p", "g">>

FileNames == {TestJpg, <<"t", "e", "s", "t">>, <<"a", ".", "t", "a", "r", ".", "g", "z">>}

TargetDirs == {BatchAssets, <<"/vault", "/", "other">>}

\* A directory content: assets at the paths of S.
FilesAt(S) == [p \in S |-> [kind |-> "asset", mtime |-> 0, content |-> "a0"]]

\* target_dir / f"{stem}_{counter}{ext}"
Suffixed(target_dir, filename, counter) ==
    target_dir \o <<"/">> \o PathStem(filename) \o <<"_">> \o Digits(counter)
        \o PathSuffix(filename)

\* The names that may be taken in the assets folder before the call.
TakenNames ==
    {BatchAssets \o <<"/">> \o TestJpg, Suffixed(BatchAssets, TestJpg, 1),
     Suffixed(BatchAssets, TestJpg, 2), BatchAssets \o <<"/", "t", "e", "s", "t">>,
     Suffixed(BatchAssets, <<"t", "e", "s", "t">>, 1)}

\* The folder in which test.jpg and every suffixed name up to the limit is taken.
FullFolder ==
    FilesAt({BatchAssets \o <<"/">> \o TestJpg}
            \cup {Suffixed(BatchAssets, TestJpg, k) : k \in 1..ProbeLimit})

InitUniqueFilename ==
    /\ config = NoConfigFile
    /\ env = [tz |-> 0, OBSIDIAN_ROOT |-> "/vault"]
    /\ remote = NoRemote
    /\ clock = Now
    /\ files \in {FilesAt(S) : S \in SUBSET TakenNames} \cup {FullFolder}
    /\ requests = {}
    /\ pc = "idle"
    /\ st = NoRun
    /\ last = NoLast
    /\ result = Zero
    /\ args \in [target_dir : TargetDirs, filename : FileNames]
    /\ ret = <<>>

\* One call; the function has no raise of its own.
GetUniqueFilename ==
    /\ pc = "idle"
    /\ ret' = [raised |-> FALSE,
               path   |-> get_unique_filename(files, args.target_dir, args.filename)]
    /\ pc' = "called"
    /\ UNCHANGED <<config, env, remote, clock, files, requests, st, last, result, args>>

SpecUniqueFilename == InitUniqueFilename /\ [][GetUniqueFilename]_vars

-----------------------------------------------------------------------------
(* download_attachment as a function of the attachment record, the card id *)
(* and the answers of the service.                                         *)

DownloadTarget == BatchAssets \o <<"/", "a", ".", "p", "n", "g">>

\* Every endpoint answers or refuses, or the connection fails, or the
\* metadata comes without a URL.
ServiceAnswers ==
    [DownloadEndpoints -> {"ok", "http_error"}]
        \cup {Uniform("conn_error"),
              [e \in DownloadEndpoints |-> IF e = "metadata" THEN "ok_no_url" ELSE "ok"]}

DownloadInputs ==
    [attachment : {Attachment(id, <<"a", ".", "p", "n", "g">>, url, TRUE, "image/png") :
                      id \in {"", "a1"},
                      url \in {"", "plain", "key", "token", "keytoken"}},
     card_id : {"", "c1"},
     http : ServiceAnswers]

InitDownload ==
    /\ config = NoConfigFile
    /\ env = [tz |-> 0, OBSIDIAN_ROOT |-> "/vault"]
    /\ remote = NoRemote
    /\ clock = Now
    /\ files = NoFiles
    /\ requests = {}
    /\ pc = "idle"
    /\ st = NoRun
    /\ last = NoLast
    /\ result = Zero
    /\ args \in DownloadInputs
    /\ ret = <<>>

\* One call of download_attachment(attachment, DownloadTarget, ..., card_id).
DownloadAttachment ==
    /\ pc = "idle"
    /\ ret' = download_attachment(args.attachment, args.card_id, args.http)
    /\ files' = AfterDownload(files, DownloadTarget, args.attachment, ret', clock)
    /\ requests' = Range(ret'.reqs)
    /\ pc' = "called"
    /\ UNCHANGED <<config, env, remote, clock, st, last, result, args>>

SpecDownload == InitDownload /\ [][DownloadAttachment]_vars

-----------------------------------------------------------------------------
(* config.validate_config as a function of the configuration file.  The    *)
(* file may be unreadable ("error" holds what load_config raises), the     *)
(* value of boards may be something else than a list ("boards_scalar"),    *)
(* and an entry may be something else than a mapping ("scalar").  An error *)
(* message is a record of its kind and of the values its text names.       *)

required_vars == <<"{org}", "{board}", "{column}", "{card}">>

\* Lines 231-239 with a break: only the first missing variable is reported.
TemplateErrorsFirstOnly(board_config) ==
    LET Lacking(var) == var \notin Range(board_config.target_path)
        lacking == SelectSeq(required_vars, Lacking)
        Error(var) == [kind |-> "missing_variable",
                       board |-> Get(board_config, "board_id", "unknown"), var |-> var]
    IN  IF lacking = <<>> THEN <<>> ELSE <<Error(lacking[1])>>

\* Lines 231-239: an error for each required variable the template lacks.
TemplateErrors(board_config) ==
    LET Lacking(var) == var \notin Range(board_config.target_path)
        Error(var) == [kind |-> "missing_variable",
                       board |-> Get(board_config, "board_id", "unknown"), var |-> var]
    IN  MapSeq(SelectSeq(required_vars, Lacking), Error)

\* Lines 223-239: the errors of the entry at index i (from 0).
BoardErrors(board_config, i) ==
    IF "scalar" \in DOMAIN board_config THEN <<[kind |-> "not_a_dictionary", index |-> i]>>
    ELSE (IF "board_id" \notin DOMAIN board_config
          THEN <<[kind |-> "missing_board_id", index |-> i]>> ELSE <<>>)
         \o (IF "target_path" \in DOMAIN board_config
             THEN TemplateErrors(board_config) ELSE <<>>)

RECURSIVE ErrorsFrom(_, _)
ErrorsFrom(boards, i) ==
    IF i > Len(boards) THEN <<>>
    ELSE BoardErrors(boards[i], i - 1) \o ErrorsFrom(boards, i + 1)

\* Lines 204-241.
validate_config(cfg) ==
    IF "error" \in DOMAIN cfg THEN <<[kind |-> "ConfigError", text |-> cfg.error]>>
    ELSE IF cfg.exists /\ "boards_scalar" \in DOMAIN cfg.data
         THEN <<[kind |-> "boards_not_a_list"]>>
    ELSE ErrorsFrom(load_config(cfg).boards, 1)

\* The templates that hold the required variables of a set, in order.
Template(S) ==
    <<"t/">> \o SelectSeq(required_vars, LAMBDA var : var \in S) \o <<".md">>

ValidateEntries ==
    {[scalar |-> "x"]}
    \cup {(IF id = "" THEN EmptyMap ELSE "board_id" :> id)
           @@ (IF S = {"none"} THEN EmptyMap ELSE "target_path" :> Template(S)) :
            id \in {"", "b1"}, S \in (SUBSET Range(required_vars)) \cup {{"none"}}}

\* Files with a value of the wrong type: "enabled_scalar" is an enabled key
\* that holds a text such as "yes", "obsidian_root_scalar" and
\* "default_assets_folder_scalar" are keys that hold a number.
MistypedEntry ==
    [board_id |-> "b1", target_path |-> Template(Range(required_vars)),
     enabled_scalar |-> "yes"]

MistypedInputs ==
    {ConfigFile([boards |-> <<MistypedEntry>>]),
     ConfigFile([boards |-> <<>>, obsidian_root_scalar |-> 5]),
     ConfigFile([boards |-> <<>>, default_assets_folder_scalar |-> 5]),
     ConfigFile([boards |-> <<MistypedEntry>>, obsidian_root_scalar |-> 5,
                 default_assets_folder_scalar |-> 5])}

ValidateInputs ==
    {NoConfigFile, ConfigFile([boards_scalar |-> "x"]),
     [exists |-> TRUE, data |-> EmptyMap, error |-> "Invalid YAML in config file"],
     ConfigFile(EmptyMap), ConfigFile([boards |-> <<>>])}
    \cup {ConfigFile([boards |-> <<e>>]) : e \in ValidateEntries}
    \cup {ConfigFile([boards |-> <<e, f>>]) : e \in ValidateEntries, f \in ValidateEntries}
    \cup MistypedInputs

InitValidate ==
    /\ config \in ValidateInputs
    /\ env = [tz |-> 0, OBSIDIAN_ROOT |-> "/vault"]
    /\ remote = NoRemote
    /\ clock = Now
    /\ files = NoFiles
    /\ requests = {}
    /\ pc = "idle"
    /\ st = NoRun
    /\ last = NoLast
    /\ result = Zero
    /\ args = EmptyMap
    /\ ret = EmptyMap

ValidateConfig ==
    /\ pc = "idle"
    /\ pc' = "called"
    /\ ret' = validate_config(config)
    /\ UNCHANGED <<config, env, remote, clock, files, requests, st, last, result, args>>

SpecValidate == InitValidate /\ [][ValidateConfig]_vars

-----------------------------------------------------------------------------
(* sanitize_file_name as a function of its argument: a text, or a value    *)
(* that is not a text (is_str is false).                                   *)

\* Lines 15-16 for a value that is not a str, and the function for a text.
SanitizeFileName(arg) ==
    IF ~arg.is_str THEN Untitled ELSE sanitize_file_name(arg.name)

NameAlphabet == {"A", "b", "1", " ", "-", "!"}

\* The texts of at most three characters.
ShortNames ==
    UNION {[1..n -> NameAlphabet] : n \in 0..3}

\* n times the letter a.
Letters(n) == [i \in 1..n |-> "a"]

\* Names around the cap: letters, then a blank or a hyphen and more.
LongNames ==
    {Letters(n) \o sep \o <<"b">> :
        n \in (SanitizeMaxLen - 2)..(SanitizeMaxLen + 1),
        sep \in {<<>>, <<" ">>, <<"-">>, <<" ", "-", " ">>, <<"!">>}}

InitSanitize ==
    /\ config = NoConfigFile
    /\ env = [tz |-> 0, OBSIDIAN_ROOT |-> ""]
    /\ remote = NoRemote
    /\ clock = Now
    /\ files = NoFiles
    /\ requests = {}
    /\ pc = "idle"
    /\ st = NoRun
    /\ last = NoLast
    /\ result = Zero
    /\ args \in [is_str : {TRUE}, name : ShortNames \cup LongNames]
               \cup {[is_str |-> FALSE, name |-> <<>>]}
    /\ ret = EmptyMap

Sanitize ==
    /\ pc = "idle"
    /\ pc' = "called"
    /\ ret' = SanitizeFileName(args)
    /\ UNCHANGED <<config, env, remote, clock, files, requests, st, last, result, args>>

SpecSanitize == InitSanitize /\ [][Sanitize]_vars

-----------------------------------------------------------------------------
(* The watching command on a vault that an earlier sync has filled: the    *)
(* file of the card of b1 is where the default template puts it, and the   *)
(* entry of b1 is as it was then, or has been disabled or removed since.   *)

WatchedCards ==
    {Card("c1", <<"T", "o">>, IsoDate(Now, 0), <<>>) @@ [shortUrl |-> u] :
        u \in {"", "https://trello.com/c/c1"}}

OtherCards ==
    {Card("c2", <<"N">>, d, <<>>) @@ [shortUrl |-> "https://trello.com/c/c2"] :
        d \in {IsoDate(1, 0), NoDate}}

WatchRemotes ==
    {[boards |-> [b \in BoardIds |->
                    IF b = "b1" THEN Board(<<"P">>, "o1", <<"O">>, <<List("l1", <<"A">>, <<c1>>)>>)
                    ELSE Board(<<"B">>, "", <<>>, <<List("l3", <<"C">>, <<c2>>)>>)]] :
        c1 \in WatchedCards, c2 \in OtherCards}

WatchConfigs ==
    {NoConfigFile,
     ConfigFile([boards |-> <<EntryPlain>>]),
     ConfigFile([boards |-> <<EntryDisabled>>]),
     ConfigFile([boards |-> <<EntryDisabled>>, obsidian_root |-> "/missing"]),
     ConfigFile([boards |-> <<EntryOther>>])}

\* The file sync_board wrote for the card of b1 while its entry was enabled.
SyncedVault ==
    WriteFile(NoFiles,
              CardPath("/vault", DefaultTargetPath, <<"O">>, <<"P">>, <<"A">>, <<"T", "o">>),
              "card", "c1", 1)

InitWatching ==
    /\ config \in WatchConfigs
    /\ env \in {[tz |-> 0, OBSIDIAN_ROOT |-> r] : r \in {"/vault", ""}}
    /\ remote \in WatchRemotes
    /\ clock = Now
    /\ files \in {NoFiles, SyncedVault}
    /\ requests = {}
    /\ pc = "idle"
    /\ st = NoRun
    /\ last = NoLast
    /\ result = Zero
    /\ args = EmptyMap
    /\ ret = EmptyMap

SpecWatching == InitWatching /\ [][Watching]_vars

-----------------------------------------------------------------------------
(* save_config and load_config one after the other, as a function of the   *)
(* configuration saved; the loaded configuration is then saved again.      *)

\* Board names as the service has them: plain, with quotes, with
\* backslashes.
SavedNames ==
    {<<"P">>, <<"Q", "\"", "3", "\"">>, <<"a", "\\", "q">>, <<"a", "\\", "\\", "b">>,
     <<"a", "\\", "\"", "b">>, <<"c", "\\">>, <<"c", "\\", "n">>}

SavedEntries ==
    {[board_id |-> "b1", board_name |-> name]
     @@ Optional("org", org)
     @@ (IF enabled = "absent" THEN EmptyMap ELSE "enabled" :> (enabled = "true"))
     @@ Optional("target_path", target_path)
     @@ Optional("assets_folder", assets_folder)
     @@ (IF workspace = "absent" THEN EmptyMap ELSE
         "workspace_name" :> (IF workspace = "empty" THEN <<>> ELSE <<"W">>)) :
        name \in SavedNames, org \in {<<>>, <<"O">>},
        enabled \in {"absent", "true", "false"},
        target_path \in {<<>>, CustomTargetPath},
        assets_folder \in {<<>>, <<"assets/", "{board}">>},
        workspace \in {"absent", "empty", "W"}}

SavedConfigs ==
    {[obsidian_root |-> root, default_assets_folder |-> assets, boards |-> boards] :
        root \in {"", "/vault"},
        assets \in {DefaultAssetsFolder, <<"my", " ", "#", "1">>, <<"a", ":", " ", "b">>},
        boards \in {<<>>, <<EntryOther, EntryFull>>} \cup {<<e>> : e \in SavedEntries}}

InitSaveLoad ==
    /\ config = NoConfigFile
    /\ env = [tz |-> 0, OBSIDIAN_ROOT |-> ""]
    /\ remote = NoRemote
    /\ clock = Now
    /\ files = NoFiles
    /\ requests = {}
    /\ pc = "idle"
    /\ st = NoRun
    /\ last = NoLast
    /\ result = Zero
    /\ args \in SavedConfigs
    /\ ret = EmptyMap

\* load_config, lines 49-56: a file that does not parse raises ConfigError.
Loaded(cfg) ==
    IF "error" \in DOMAIN cfg THEN [raised |-> TRUE, config |-> EmptyMap]
    ELSE [raised |-> FALSE, config |-> load_config(cfg),
          boards_is_list |-> "boards_scalar" \notin DOMAIN cfg.data]

SaveLoad ==
    /\ pc = "idle"
    /\ pc' = "called"
    /\ config' = save_config(args)
    /\ ret' = LET loaded == Loaded(save_config(args))
              IN  [loaded |-> loaded,
                   again  |-> IF loaded.raised THEN loaded
                              ELSE Loaded(save_config(loaded.config))]
    /\ UNCHANGED <<env, remote, clock, files, requests, st, last, result, args>>

SpecSaveLoad == InitSaveLoad /\ [][SaveLoad]_vars

-----------------------------------------------------------------------------
(* The reports of the command line (cli/commands.py): every command runs   *)
(* in a try block whose handlers turn an exception into a ClickException.  *)
(* An exception is [kind, message]; a report is the text of the            *)
(* ClickException, as the sequence of its parts, and the exit code.        *)

CommandNames ==
    {"sync", "list-boards", "show-board", "config", "config-add", "config-init",
     "config-validate", "watching", "config-update"}

\* The class the first handler of the command catches.
Verbatim(cmd) ==
    IF cmd \in {"config", "config-validate"} THEN "ConfigError" ELSE "ValueError"

\* The words of the second handler of the command.
Wrapping(cmd) ==
    CASE cmd = "sync"            -> "Error syncing board: "
      [] cmd = "list-boards"     -> "Error listing boards: "
      [] cmd = "show-board"      -> "Error showing board: "
      [] cmd = "config"          -> "Error loading config: "
      [] cmd = "config-add"      -> "Error adding config: "
      [] cmd = "config-init"     -> "Error initializing config: "
      [] cmd = "config-validate" -> "Error validating config: "
      [] cmd = "watching"        -> "Error generating watching file: "
      [] cmd = "config-update"   -> "Error updating config: "

\* The handlers of a command: click exits with ClickException.exit_code.
Report(cmd, e) ==
    [exit_code |-> 1,
     message |-> IF e.kind = Verbatim(cmd) THEN <<e.message>>
                 ELSE <<Wrapping(cmd), e.message>>]

\* trello_sync.py, lines 327-330; config.py, line 54; trello_sync.py, line 42.
NoRootMessage == "Board b1 is configured but OBSIDIAN_ROOT is not set."

InvalidYamlMessage == "Invalid YAML in config file"

NoCredentialsMessage == "Trello credentials not found"

\* What the body of a command can raise: a ConfigError where it loads the
\* file or resolves the vault root, a ValueError where it makes a client,
\* and the errors of requests and of the file system.
RaisedBy(cmd) ==
    (IF cmd \in {"sync", "config", "config-init", "config-update"}
     THEN {[kind |-> "ConfigError", message |-> m] :
             m \in IF cmd = "sync" THEN {NoRootMessage, InvalidYamlMessage}
                   ELSE {InvalidYamlMessage}}
     ELSE {})
    \cup (IF cmd \in {"config", "config-validate"} THEN {}
          ELSE {[kind |-> "ValueError", message |-> NoCredentialsMessage]})
    \cup (IF cmd \in {"config", "config-validate"} THEN {}
          ELSE {[kind |-> "HTTPError", message |-> m] :
                  m \in {"401 Client Error", "404 Client Error", "500 Server Error"}})
    \cup {[kind |-> k, message |-> "boom"] : k \in {"OSError", "TypeError", "KeyError"}}

InitReport ==
    /\ config = NoConfigFile
    /\ env = [tz |-> 0, OBSIDIAN_ROOT |-> ""]
    /\ remote = NoRemote
    /\ clock = Now
    /\ files = NoFiles
    /\ requests = {}
    /\ pc = "idle"
    /\ st = NoRun
    /\ last = NoLast
    /\ result = Zero
    /\ args \in {[cmd |-> c, e |-> e] : c \in CommandNames, e \in UNION {RaisedBy(d) : d \in CommandNames}}
    /\ args.e \in RaisedBy(args.cmd)
    /\ ret = EmptyMap

ReportError ==
    /\ pc = "idle"
    /\ pc' = "called"
    /\ ret' = Report(args.cmd, args.e)
    /\ UNCHANGED <<config, env, remote, clock, files, requests, st, last, result, args>>

SpecReport == InitReport /\ [][ReportError]_vars

-----------------------------------------------------------------------------
(* Properties of sync_board.                                               *)

\* The positions <<list, card>> of the cards of a board.
CardsOf(lists) ==
    UNION {{<<li, ci>> : ci \in 1..Len(lists[li].cards)} : li \in 1..Len(lists)}

\* The destination the run s gives the card at position x of lists.
PathOf(s, lists, x) ==
    CardPath(s.root, s.target, s.workspace_name, s.board_name,
             lists[x[1]].name, lists[x[1]].cards[x[2]].name)

CardFiles(fs) == {p \in DOMAIN fs : fs[p].kind = "card"}

\* Every card of the board of run s is judged stale on the file system fs.
AllStale(s, lists, fs, tz) ==
    \A x \in CardsOf(lists) :
        should_sync_card(fs, PathOf(s, lists, x),
                         lists[x[1]].cards[x[2]].dateLastActivity, tz)

IsDetailRequest(r) == r.endpoint \in DetailEndpoints \cup DownloadEndpoints

C2_SecondRunSkipsEveryCard ==
    (/\ pc = "returned"
     /\ st.cmd = "sync"
     /\ st.run = 2
     /\ st.configured
     /\ st.prev = st.board_id
     /\ clock = Now)
    => /\ result.skipped_cards = result.total_cards
       /\ result.synced_cards = 0

\* C3: a dry run of a configured, enabled board whose cards are all stale
\* creates and modifies no file or directory and sends no per-card detail
\* request at any point of the call, and returns synced_cards = N and
\* skipped_cards = 0 for the N cards of the board.
C3_DryRunHasNoEffect ==
    LET lists == remote.boards[st.board_id].lists
    IN  (/\ st.cmd = "sync"
         /\ st.configured
         /\ st.dry_run
         /\ pc \in {"lists", "cards", "returned"}
         /\ AllStale(st, lists, st.files0, env.tz))
        => /\ files = st.files0
           /\ \A r \in requests : ~IsDetailRequest(r)
           /\ pc = "returned" =>
                 /\ result.synced_cards = Cardinality(CardsOf(lists))
                 /\ result.skipped_cards = 0

\* A dry run has returned for a board with two cards, all stale, on a vault
\* that an earlier run has filled.
C3_Witness ==
    /\ st.cmd = "sync"
    /\ st.configured
    /\ st.dry_run
    /\ pc = "returned"
    /\ st.files0 # NoFiles
    /\ AllStale(st, remote.boards[st.board_id].lists, st.files0, env.tz)
    /\ Cardinality(CardsOf(remote.boards[st.board_id].lists)) = 2
    /\ result.synced_cards = 2

\* C4: after a non-dry-run sync_board of a configured, enabled board has
\* returned normally from an empty vault, the cards of the board have
\* distinct destinations, each card has a file holding its content, and the
\* number of card files equals total_cards.
C4_EveryCardHasItsOwnFile ==
    LET lists == remote.boards[st.board_id].lists
    IN  (/\ pc = "returned"
         /\ st.cmd = "sync"
         /\ st.configured
         /\ ~st.dry_run
         /\ st.files0 = NoFiles)
        => /\ \A x, y \in CardsOf(lists) :
                 x # y => PathOf(st, lists, x) # PathOf(st, lists, y)
           /\ \A x \in CardsOf(lists) :
                 /\ PathOf(st, lists, x) \in CardFiles(files)
                 /\ files[PathOf(st, lists, x)].content = lists[x[1]].cards[x[2]].id
           /\ Cardinality(CardFiles(files)) = result.total_cards

\* C6: an iteration of the card loop in which the download of an attachment
\* fails, and no other step does, still processes every attachment of the
\* card, writes the card's file, increments synced_cards and moves on to the
\* next card or list.
C6_DownloadFailureDoesNotAbort ==
    [][(/\ pc = "cards"
        /\ last'.dl_failed > 0
        /\ last'.failed_at \in {"none", "download"})
       => /\ last'.outcome = "synced"
          /\ last'.attempted = Len(st.lists[st.li].cards[st.ci].attachments)
          /\ last'.path \in CardFiles(files')
          /\ files'[last'.path].content = st.lists[st.li].cards[st.ci].id
          /\ st'.synced_cards = st.synced_cards + 1
          /\ st'.error = ""
          /\ pc' = LoopPc(st)
          /\ <<st'.li, st'.ci>> = <<Advance(st).li, Advance(st).ci>>]_vars

\* The first upload of a card failed, the second was downloaded, the card
\* was synced and the loop goes on.
C6_Witness ==
    /\ pc \in {"cards", "lists"}
    /\ last.outcome = "synced"
    /\ last.attempted = 2
    /\ last.dl_failed = 1
    /\ last.downloaded = {"a2"}
    /\ st.synced_cards = 1

\* C7: in a non-dry-run sync_board, a failure of a detail fetch, of the
\* rendering or of the file write ends the call with the failure: no step of
\* the call follows it, and every card file and asset that was on disk
\* before the failing step is still there, unchanged.
C7_HardFailureAbortsWithoutRollback ==
    [][/\ pc # "raised"
       /\ (pc = "cards" /\ last'.failed_at \in FailPoints)
          => /\ pc' = "raised"
             /\ st'.error # ""
             /\ \A p \in DOMAIN files :
                   files[p].kind \in {"card", "asset"}
                   => p \in DOMAIN files' /\ files'[p] = files[p]]_vars

-----------------------------------------------------------------------------
(* Properties of should_sync_card and get_board_config.                    *)

\* C5: should_sync_card returns true when the file does not exist; when it
\* exists, true when the timestamp of the card is not a string or does not
\* parse; otherwise true exactly when the instant of the card's last
\* activity is strictly later than the instant the file was last modified.
C5_StaleExactlyWhenLaterInstant ==
    pc = "called"
    => ret = IF args.card_path \notin DOMAIN files THEN TRUE
             ELSE IF args.card_updated.kind # "iso" THEN TRUE
             ELSE Instant(args.card_updated) > files[args.card_path].mtime

\* The entries of the configuration file, as get_board_config reads them.
BoardsOf(cfg) == IF cfg.exists THEN Get(cfg.data, "boards", <<>>) ELSE <<>>

\* i is the first entry of boards with the board id.
FirstMatch(boards, board_id, i) ==
    /\ Get(boards[i], "board_id", "") = board_id
    /\ \A j \in 1..(i - 1) : Get(boards[j], "board_id", "") # board_id

\* C9, as the code has it: get_board_config returns the first entry whose
\* board_id matches, whether the entry is enabled or not, and an absent
\* value only when no entry matches.
C9_FirstMatchingEntryEnabledOrNot ==
    pc = "called"
    => LET boards == BoardsOf(config)
       IN  /\ ret.found <=> \E i \in 1..Len(boards) : FirstMatch(boards, args.board_id, i)
           /\ \A i \in 1..Len(boards) :
                 FirstMatch(boards, args.board_id, i) => ret.entry = boards[i]

\* get_board_config has returned an entry whose enabled flag is false.
C9_Witness ==
    /\ pc = "called"
    /\ ret.found
    /\ Get(ret.entry, "enabled", TRUE) = FALSE
    /\ Len(BoardsOf(config)) = 2

\* C9, as stated: get_board_config returns the matching entry when it is
\* enabled, and an absent value when no entry matches and when the matching
\* entry has enabled = false.
C9_DisabledEntryIsAbsent ==
    pc = "called"
    => LET boards == BoardsOf(config)
       IN  \A i \in 1..Len(boards) :
             FirstMatch(boards, args.board_id, i)
             => IF Get(boards[i], "enabled", TRUE) = FALSE
                THEN ~ret.found
                ELSE ret.found /\ ret.entry = boards[i]

-----------------------------------------------------------------------------
(* Properties of process_attachments.                                      *)

Gained(r) == DOMAIN r \ DOMAIN UploadA

\* C10: process_attachments returns one record per attachment, in the order
\* given.  A link, and an upload without URL, comes back unchanged.  An upload whose download succeeds
\* gains local_path, is_image and asset_path and no download_error, and the
\* file is at asset_path.  An upload whose processing raises gains
\* download_error, the name of the failure, and neither local_path nor
\* asset_path.  What happens to an attachment depends on its own download
\* only, never on a failure before it.
C10_OneRecordPerAttachment ==
    pc = "called"
    => /\ Len(ret) = Len(args.attachments)
       /\ \A i \in 1..Len(ret) :
             LET a == args.attachments[i]
                 r == ret[i]
                 d == download_attachment(a, "", Uniform(args.http[i]))
             IN  /\ \A k \in DOMAIN a : r[k] = a[k]
                 /\ (~a.isUpload \/ a.url = "") => r = a
                 /\ (a.isUpload /\ a.url # "" /\ d.outcome = "ok")
                    => /\ Gained(r) = {"local_path", "is_image", "asset_path"}
                       /\ r.asset_path \in DOMAIN files
                       /\ files[r.asset_path].content = a.id
                       /\ r.is_image = is_image_file(a.name, a.mimeType)
                 /\ (a.isUpload /\ a.url # "" /\ d.outcome # "ok")
                    => /\ Gained(r) = {"download_error"}
                       /\ r.download_error = d.outcome

\* Of two uploads the first has failed and the second has been downloaded.
C10_Witness ==
    /\ pc = "called"
    /\ Len(ret) = 2
    /\ "download_error" \in DOMAIN ret[1]
    /\ ret[1].download_error = "HTTPError"
    /\ "local_path" \in DOMAIN ret[2]
    /\ ret[2].asset_path \in DOMAIN files

-----------------------------------------------------------------------------
(* Properties of the commands.                                             *)

\* C8: in every execution of every command (sync, list-boards, show-board,
\* config-add, config-init, config-update, watching) every request sent to
\* the remote service is a GET.
C8_EveryRequestIsGet == \A r \in requests : r.method = "GET"

\* config-update has fetched the organization of a board.
C8_Witness ==
    /\ pc = "returned"
    /\ st.cmd = "config-update"
    /\ get_organization_request("o1") \in requests
    /\ config.exists

-----------------------------------------------------------------------------
(* Properties of get_unique_filename.                                      *)

\* The suffixed names of the call that are free.
FreeSuffixes ==
    {k \in 1..(ProbeLimit + 1) : ~Exists(files, Suffixed(args.target_dir, args.filename, k))}

\* C11: get_unique_filename returns targetDir/filename when that path does
\* not exist; otherwise targetDir/stem_k.ext for the smallest k >= 1 whose
\* path does not exist.  The path returned does not exist.
C11_SmallestFreeSuffix ==
    pc = "called"
    => /\ ~ret.raised
       /\ ~Exists(files, ret.path)
       /\ IF ~Exists(files, args.target_dir \o <<"/">> \o args.filename)
          THEN ret.path = args.target_dir \o <<"/">> \o args.filename
          ELSE /\ ret.path = Suffixed(args.target_dir, args.filename, Min(FreeSuffixes))
               /\ \A k \in 1..(Min(FreeSuffixes) - 1) :
                     Exists(files, Suffixed(args.target_dir, args.filename, k))

\* test.jpg and test_1.jpg are taken, and test_2.jpg has been returned.
C11_Witness ==
    /\ pc = "called"
    /\ args.filename = TestJpg
    /\ Exists(files, args.target_dir \o <<"/">> \o TestJpg)
    /\ Exists(files, Suffixed(args.target_dir, TestJpg, 1))
    /\ ret.path = Suffixed(args.target_dir, TestJpg, 2)

\* C12: get_unique_filename probes at most 1,000 suffixed names; when the
\* name and all 1,000 suffixed names exist it raises an error instead of
\* probing further.
C12_ProbesAreBounded ==
    pc = "called"
    => IF /\ Exists(files, args.target_dir \o <<"/">> \o args.filename)
          /\ \A k \in 1..ProbeLimit :
                Exists(files, Suffixed(args.target_dir, args.filename, k))
       THEN ret.raised
       ELSE ~ret.raised

-----------------------------------------------------------------------------
(* Properties of download_attachment.                                      *)

-----------------------------------------------------------------------------
(* Properties of the configuration commands.                               *)

\* The board ids of the entries of a configuration file.
IdsOf(cfg) ==
    {Get(load_config(cfg).boards[i], "board_id", "") :
        i \in 1..Len(load_config(cfg).boards)} \ {""}

\* The ids of the boards the service lists.
RemoteIds == Range(BoardOrder)

\* The command that has just returned, as a step.
Returns(cmd) == pc = "idle" /\ pc' = "returned" /\ st'.cmd = cmd

\* C14: after config-init without --force on an existing configuration has
\* returned, the board ids of the written configuration are the ids of the
\* boards visible remotely: a missing board is added, a board that is no
\* longer visible is removed, and every entry has an id.
C14_InitWritesTheRemoteBoards ==
    [][(Returns("config-init") /\ config.exists)
       => /\ config'.exists
          /\ IdsOf(config') = RemoteIds
          /\ \A i \in 1..Len(config'.data.boards) :
                Get(config'.data.boards[i], "board_id", "") \in RemoteIds]_vars

\* config-init has removed the entry of b3 and added one for b2.
C14_Witness ==
    /\ pc = "returned"
    /\ st.cmd = "config-init"
    /\ args.found.exists
    /\ IdsOf(args.found) = {"b1", "b3"}
    /\ IdsOf(config) = RemoteIds

\* The entry of a board in a configuration file: the first one with the id.
EntryOf(cfg, board_id) ==
    LET boards == load_config(cfg).boards
    IN  boards[Min({i \in 1..Len(boards) : Get(boards[i], "board_id", "") = board_id})]

\* An entry as config-init creates it: disabled, with the default template
\* and without a folder of its own for assets.
Created(entry) ==
    /\ "enabled" \in DOMAIN entry /\ entry.enabled = FALSE
    /\ "target_path" \in DOMAIN entry /\ entry.target_path = DefaultTargetPath
    /\ "assets_folder" \notin DOMAIN entry

\* C15: every entry config-init creates is disabled and has the default
\* target path. Without a configuration file, or with --force, the written
\* file has exactly one entry for each board the service lists, all of them
\* created so, whatever the previous file held; without --force on an
\* existing file every board that had no entry gets a created one.
C15_CreatedEntriesAreDisabled ==
    [][/\ (Returns("config-init --force") \/ (Returns("config-init") /\ ~config.exists))
          => /\ config'.exists
             /\ Len(config'.data.boards) = Cardinality(RemoteIds)
             /\ IdsOf(config') = RemoteIds
             /\ \A i \in 1..Len(config'.data.boards) : Created(config'.data.boards[i])
       /\ (Returns("config-init") /\ config.exists)
          => \A b \in RemoteIds \ IdsOf(config) :
                b \in IdsOf(config') /\ Created(EntryOf(config', b))]_vars

\* config-init --force has replaced a file in which b1 was enabled with a
\* folder of its own for assets.
C15_Witness ==
    /\ pc = "returned"
    /\ st.cmd = "config-init --force"
    /\ args.found.exists
    /\ "b1" \in IdsOf(args.found)
    /\ EntryOf(args.found, "b1") = EntryFull
    /\ Created(EntryOf(config, "b1"))

\* The settings of an entry as a sync reads them (trello_sync.py, lines 303,
\* 333 and 336): enabled unless said otherwise, the default target path
\* unless one is given, and the folder for assets if there is one.
EffectiveEnabled(entry) == Get(entry, "enabled", TRUE)

EffectiveTargetPath(entry) == Get(entry, "target_path", DefaultTargetPath)

OwnAssetsFolder(entry) == Get(entry, "assets_folder", <<>>)

\* Two entries that differ at most in the given keys; an absent text and an
\* empty one are the same to every reader.
Refreshed(entry, entry2, keys) ==
    \A k \in (DOMAIN entry \cup DOMAIN entry2) \ ({"board_id", "enabled", "target_path"} \cup keys) :
        Get(entry, k, <<>>) = Get(entry2, k, <<>>)

\* C16: config-init without --force keeps the settings of every board that
\* has an entry in the old file and is listed by the service: whether it is
\* enabled (true when the entry does not say), its target path and its
\* folder for assets are the same in the written file; only board_name, org
\* and a missing workspace_name change.
C16_InitKeepsSettings ==
    [][(Returns("config-init") /\ config.exists)
       => \A b \in IdsOf(config) \cap RemoteIds :
            LET old == EntryOf(config, b)
                new == EntryOf(config', b)
            IN  /\ EffectiveEnabled(new) = EffectiveEnabled(old)
                /\ EffectiveTargetPath(new) = EffectiveTargetPath(old)
                /\ OwnAssetsFolder(new) = OwnAssetsFolder(old)
                /\ Refreshed(old, new, {"board_name", "org"}
                                       \cup ({"workspace_name"} \ DOMAIN old))]_vars

\* The part of C16 that the command keeps: the target path, the folder for
\* assets and a flag that the entry states.
C16_InitKeepsStatedSettings ==
    [][(Returns("config-init") /\ config.exists)
       => \A b \in IdsOf(config) \cap RemoteIds :
            LET old == EntryOf(config, b)
                new == EntryOf(config', b)
            IN  /\ "enabled" \in DOMAIN old => EffectiveEnabled(new) = old.enabled
                /\ EffectiveTargetPath(new) = EffectiveTargetPath(old)
                /\ OwnAssetsFolder(new) = OwnAssetsFolder(old)
                /\ Refreshed(old, new, {"board_name", "org"}
                                       \cup ({"workspace_name"} \ DOMAIN old))]_vars

\* C17: config-update without --dry-run keeps the settings of every board
\* that has an entry in the old file and is listed by the service: whether it
\* is enabled (true when the entry does not say), its target path and its
\* folder for assets, read back from the saved file, are the same as before;
\* only board_name, org and workspace_name are refreshed.
C17_UpdateKeepsSettings ==
    [][(Returns("config-update") /\ config.exists /\ config'.exists)
       => \A b \in IdsOf(config) \cap RemoteIds :
            LET old == EntryOf(config, b)
                new == EntryOf(config', b)
            IN  /\ EffectiveEnabled(new) = EffectiveEnabled(old)
                /\ EffectiveTargetPath(new) = EffectiveTargetPath(old)
                /\ OwnAssetsFolder(new) = OwnAssetsFolder(old)
                /\ Refreshed(old, new, {"board_name", "org", "workspace_name"})]_vars

\* The part of C17 that the command keeps: the target path, the folder for
\* assets and a flag that the entry states.
C17_UpdateKeepsStatedSettings ==
    [][(Returns("config-update") /\ config.exists /\ config'.exists)
       => \A b \in IdsOf(config) \cap RemoteIds :
            LET old == EntryOf(config, b)
                new == EntryOf(config', b)
            IN  /\ "enabled" \in DOMAIN old => EffectiveEnabled(new) = old.enabled
                /\ EffectiveTargetPath(new) = EffectiveTargetPath(old)
                /\ OwnAssetsFolder(new) = OwnAssetsFolder(old)
                /\ Refreshed(old, new, {"board_name", "org", "workspace_name"})]_vars

\* C18: config-update with --dry-run never writes: whatever the file holds
\* and whether or not there is one, and whether the command returns or
\* fails, the configuration file and the vault are after the command what
\* they were before it.
C18_DryRunWritesNothing ==
    [][(pc = "idle" /\ st'.cmd = "config-update --dry-run")
       => config' = config /\ files' = files]_vars

\* A dry run has returned on a file that lacks a board of the service and
\* has an entry for a board the service does not list.
C18_Witness ==
    /\ pc = "returned"
    /\ st.cmd = "config-update --dry-run"
    /\ config.exists
    /\ args.found = config
    /\ IdsOf(config) = {"b1", "b3"}

\* No board id is in two entries of the file.
UniqueIds(cfg) ==
    LET boards == load_config(cfg).boards
    IN  \A i, j \in 1..Len(boards) :
            (i # j /\ "board_id" \in DOMAIN boards[i] /\ "board_id" \in DOMAIN boards[j])
            => boards[i].board_id # boards[j].board_id

\* One entry of old is replaced by an entry with its id, or an entry with a
\* new id is appended; the other entries are what and where they were.
AddedOrReplaced(old, new) ==
    \/ /\ Len(new) = Len(old)
       /\ \E i \in 1..Len(old) :
            /\ "board_id" \in DOMAIN old[i]
            /\ new[i].board_id = old[i].board_id
            /\ \A j \in 1..Len(old) : j # i => new[j] = old[j]
    \/ /\ Len(new) = Len(old) + 1
       /\ SubSeq(new, 1, Len(old)) = old
       /\ \A j \in 1..Len(old) :
            "board_id" \in DOMAIN old[j] => new[Len(new)].board_id # old[j].board_id

\* C19: from no configuration file, or from one in which no board id is in
\* two entries, no sequence of config-add, config-init (with or without
\* --force) and config-update leads to a file in which a board id is in two
\* entries; config-add for a board that has an entry replaces that entry,
\* for another board it appends one, and it leaves every other entry as it
\* was.
C19_BoardIdsStayUnique ==
    /\ [](config.exists => UniqueIds(config))
    /\ [][Returns("config-add")
          => AddedOrReplaced(load_config(config).boards, config'.data.boards)]_vars

\* config-add has replaced the entry of a board in a file of two entries.
C19_Witness ==
    /\ pc = "returned"
    /\ st.cmd = "config-add"
    /\ args.found.exists
    /\ Len(args.found.data.boards) = 2
    /\ "b2" \in IdsOf(args.found)
    /\ Len(config.data.boards) = 2
    /\ EntryOf(config, "b2") # EntryOf(args.found, "b2")
    /\ UniqueIds(config)

-----------------------------------------------------------------------------
(* Properties of validate_config.                                          *)

\* The required variables that the target path of an entry lacks.
LackedBy(entry) ==
    IF "scalar" \in DOMAIN entry \/ "target_path" \notin DOMAIN entry THEN {}
    ELSE {var \in Range(required_vars) : var \notin Range(entry.target_path)}

\* A mapping with a board id and a target path that has the four variables.
Conformant(entry) ==
    /\ "scalar" \notin DOMAIN entry
    /\ "board_id" \in DOMAIN entry
    /\ "target_path" \in DOMAIN entry
    /\ LackedBy(entry) = {}

RECURSIVE SumOver(_, _)
SumOver(boards, i) ==
    IF i > Len(boards) THEN 0
    ELSE Cardinality(LackedBy(boards[i])) + SumOver(boards, i + 1)

\* C20: on a file whose boards are a list, validate_config returns an error
\* for every mapping without board_id, and for every target path one error
\* for each of {org}, {board}, {column}, {card} that it lacks, naming the
\* variable, and no error of that kind besides; when every entry is a
\* mapping with a board_id and a target path with the four variables it
\* returns the empty list.
C20_ValidateReportsEachViolation ==
    (pc = "called" /\ "error" \notin DOMAIN config /\ "boards_scalar" \notin DOMAIN config.data)
    => LET boards == load_config(config).boards
       IN  /\ \A i \in 1..Len(boards) :
                ("scalar" \notin DOMAIN boards[i] /\ "board_id" \notin DOMAIN boards[i])
                => \E k \in 1..Len(ret) :
                      ret[k] = [kind |-> "missing_board_id", index |-> i - 1]
           /\ \A i \in 1..Len(boards) : \A var \in LackedBy(boards[i]) :
                \E k \in 1..Len(ret) :
                    ret[k] = [kind |-> "missing_variable",
                              board |-> Get(boards[i], "board_id", "unknown"),
                              var |-> var]
           /\ Cardinality({k \in 1..Len(ret) : ret[k].kind = "missing_variable"})
                = SumOver(boards, 1)
           /\ (\A i \in 1..Len(boards) : Conformant(boards[i])) => ret = <<>>

\* An entry without board_id whose target path lacks {column} and {card},
\* after a conformant one: three errors.
C20_Witness ==
    /\ pc = "called"
    /\ config.exists
    /\ Len(load_config(config).boards) = 2
    /\ Conformant(config.data.boards[1])
    /\ "board_id" \notin DOMAIN config.data.boards[2]
    /\ LackedBy(config.data.boards[2]) = {"{column}", "{card}"}
    /\ Len(ret) = 3

\* A file with an enabled value that is not a boolean, or an obsidian_root
\* or default_assets_folder that is not a string.
Mistyped(cfg) ==
    /\ cfg.exists
    /\ "error" \notin DOMAIN cfg
    /\ "boards_scalar" \notin DOMAIN cfg.data
    /\ \/ "obsidian_root_scalar" \in DOMAIN cfg.data
       \/ "default_assets_folder_scalar" \in DOMAIN cfg.data
       \/ \E i \in 1..Len(load_config(cfg).boards) :
             "enabled_scalar" \in DOMAIN load_config(cfg).boards[i]

\* C21: validate_config returns a violation whenever the enabled value of
\* an entry is present and not a boolean, whenever obsidian_root is present
\* and not a string, and whenever default_assets_folder is present and not
\* a string: such a file is never reported as valid.
C21_ValidateReportsMistypedValues ==
    (pc = "called" /\ Mistyped(config)) => Len(ret) > 0

-----------------------------------------------------------------------------
(* Properties of the reports of the command line.                          *)

\* C22: for every command the kind of the error decides the report: a
\* configuration error, the unresolved vault root of sync_board among them,
\* is reported with its message after "Configuration error:", a value error
\* is reported as it is, any other error is wrapped after the words of the
\* command, "Error <action>: "; the exit code is not zero in all three.
C22_KindOfErrorDecidesReport ==
    pc = "called"
    => /\ ret.exit_code # 0
       /\ ret.message =
            IF args.e.kind = "ConfigError" THEN <<"Configuration error: ", args.e.message>>
            ELSE IF args.e.kind = "ValueError" THEN <<args.e.message>>
            ELSE <<Wrapping(args.cmd), args.e.message>>

\* The part of C22 that holds: an error that is neither a configuration
\* error nor a value error is wrapped after the words of the command, and
\* every report exits with a code that is not zero.
C22_OtherErrorsAreWrapped ==
    pc = "called"
    => /\ ret.exit_code # 0
       /\ args.e.kind \notin {"ConfigError", "ValueError"}
          => ret.message = <<Wrapping(args.cmd), args.e.message>>

-----------------------------------------------------------------------------
(* Properties of save_config and load_config.                              *)

BoardFields ==
    {"board_name", "org", "target_path", "assets_folder", "workspace_name"}

\* Two configurations with the same recognized fields; an absent text and
\* an empty one are the same.
SameFields(saved, loaded) ==
    /\ loaded.obsidian_root = saved.obsidian_root
    /\ loaded.default_assets_folder = saved.default_assets_folder
    /\ Len(loaded.boards) = Len(saved.boards)
    /\ \A i \in 1..Len(saved.boards) :
         /\ loaded.boards[i].board_id = saved.boards[i].board_id
         /\ "enabled" \in DOMAIN saved.boards[i]
            => Get(loaded.boards[i], "enabled", TRUE) = saved.boards[i].enabled
         /\ \A k \in BoardFields :
              Get(loaded.boards[i], k, <<>>) = Get(saved.boards[i], k, <<>>)

\* C23: save_config and then load_config give a configuration with the
\* obsidian_root and the default_assets_folder that were saved, the same
\* boards in the same order, and for each board the board_id, board_name,
\* org, enabled, target_path, assets_folder and workspace_name that were
\* saved; saving what was loaded and loading again changes none of them.
C23_SaveThenLoadIsARoundTrip ==
    pc = "called"
    => /\ ~ret.loaded.raised
       /\ ret.loaded.boards_is_list
       /\ SameFields(args, ret.loaded.config)
       /\ ~ret.again.raised
       /\ SameFields(ret.loaded.config, ret.again.config)

\* The part of C23 that holds: with names and folders of letters, digits,
\* blanks and slashes, and at least one board, the fields that were saved
\* are the fields that are loaded, and a second save changes nothing.
C23_RoundTripOfPlainTexts ==
    (/\ pc = "called"
     /\ args.boards # <<>>
     /\ args.default_assets_folder = DefaultAssetsFolder
     /\ \A i \in 1..Len(args.boards) : \A k \in BoardFields \cap DOMAIN args.boards[i] :
            Range(args.boards[i][k]) \cap {"\"", "\\"} = {})
    => /\ ~ret.loaded.raised
       /\ ret.loaded.boards_is_list
       /\ SameFields(args, ret.loaded.config)
       /\ ~ret.again.raised
       /\ SameFields(ret.loaded.config, ret.again.config)

-----------------------------------------------------------------------------
(* Properties of the watching report.                                      *)

\* The rows of the report that has been written.
Rows == IF pc = "returned" /\ st.cmd = "watching" THEN ret.rows ELSE <<>>

\* The short URL of a watched card.
ShortUrlOf(card_id) ==
    LET CardsOn(b) == UNION {Range(l.cards) : l \in Range(remote.boards[b].lists)}
        cards == UNION {CardsOn(b) : b \in BoardIds}
    IN  Get(CHOOSE c \in cards : c.id = card_id, "shortUrl", "")

\* C24: in the watching report the name of a card is a link to a local file
\* only if the vault root resolves and the board of the card has an entry
\* that is enabled; for a card of a board without entry or with a disabled
\* one the name is the link to the short URL, or plain when there is none,
\* even when the file is where the template of the board puts it.
C24_LocalLinkOnlyForEnabledBoard ==
    \A i \in 1..Len(Rows) :
        /\ Rows[i].display = "local"
           => get_obsidian_root(config, env).ok /\ BoardEnabled(config, Rows[i].board_id)
        /\ ~BoardEnabled(config, Rows[i].board_id)
           => Rows[i].display = IF ShortUrlOf(Rows[i].card) # "" THEN "remote" ELSE "plain"

\* The part of C24 that holds: a local link needs a vault root that resolves
\* and an entry for the board, and without them the name is the link to the
\* short URL or plain.
C24_LocalLinkOnlyForConfiguredBoard ==
    \A i \in 1..Len(Rows) :
        /\ Rows[i].display = "local"
           => /\ get_obsidian_root(config, env).ok
              /\ get_board_config(config, Rows[i].board_id).found
        /\ (~get_obsidian_root(config, env).ok \/ ~get_board_config(config, Rows[i].board_id).found)
           => Rows[i].display = IF ShortUrlOf(Rows[i].card) # "" THEN "remote" ELSE "plain"

-----------------------------------------------------------------------------
(* Properties of sanitize_file_name.                                       *)

\* A name of lowercase letters, digits and hyphens.
SafeCharacters(name) ==
    \A i \in 1..Len(name) :
        name[i] \in Range(Lowercase) \cup Range(DecimalDigits) \cup {"-"}

NoHyphenPair(name) ==
    \A i \in 1..(Len(name) - 1) : ~(name[i] = "-" /\ name[i + 1] = "-")

\* The text has no letter and no digit.
SanitizesToEmpty(name) ==
    \A i \in 1..Len(name) : ~IsAlnum(name[i])

\* C25: for every input sanitize_file_name returns a text that is not
\* empty, has at most 100 characters, is lowercase, has only letters,
\* digits and hyphens, no two hyphens in a row and no hyphen at its start
\* or end; it returns "untitled" when the input is absent, is not a text or
\* sanitizes to the empty text.
C25_SanitizedNameIsWellFormed ==
    pc = "called"
    => /\ ret # <<>>
       /\ Len(ret) <= SanitizeMaxLen
       /\ SafeCharacters(ret)
       /\ NoHyphenPair(ret)
       /\ ret[1] # "-"
       /\ ret[Len(ret)] # "-"
       /\ (~args.is_str \/ SanitizesToEmpty(args.name)) => ret = Untitled

\* The part of C25 that holds: everything but the hyphen at the end, which
\* the cut at 100 characters can leave.
C25_SanitizedNameButForItsEnd ==
    pc = "called"
    => /\ ret # <<>>
       /\ Len(ret) <= SanitizeMaxLen
       /\ SafeCharacters(ret)
       /\ NoHyphenPair(ret)
       /\ ret[1] # "-"
       /\ ret[Len(ret)] = "-" => Len(ret) = SanitizeMaxLen
       /\ (~args.is_str \/ SanitizesToEmpty(args.name)) => ret = Untitled

-----------------------------------------------------------------------------
(* Properties of the strategies of download_attachment.                    *)

\* The place of a request in the order of the strategies.
StrategyRank(endpoint) ==
    CASE endpoint = "url_as_is"        -> 1
      [] endpoint = "metadata"         -> 2
      [] endpoint = "metadata_url"     -> 3
      [] endpoint = "download_encoded" -> 4
      [] endpoint = "download_plain"   -> 5
      [] endpoint = "url_with_auth"    -> 2

\* The strategy that is tried last for the arguments of the call.
LastStrategy ==
    IF args.card_id # "" THEN "download_plain"
    ELSE IF HasKeyAndToken(args.attachment.url) THEN "url_as_is"
    ELSE "url_with_auth"

\* The strategies as the claim has them, for a call whose record has an id.
StrategiesInOrder ==
    LET n == Len(ret.reqs)
        endpoint(k) == ret.reqs[k].endpoint
        answer(k) == args.http[endpoint(k)]
    IN  \* (1) first, and only for a URL with key and token
        /\ \A k \in 1..n : endpoint(k) = "url_as_is"
              => k = 1 /\ HasKeyAndToken(args.attachment.url)
        /\ HasKeyAndToken(args.attachment.url) => n >= 1 /\ endpoint(1) = "url_as_is"
        \* (2), (3), (4) with a card id, (5) without
        /\ \A k \in 1..n :
              /\ endpoint(k) \in {"metadata", "metadata_url", "download_encoded",
                                  "download_plain"} => args.card_id # ""
              /\ endpoint(k) = "url_with_auth" => args.card_id = ""
        /\ \A j, k \in 1..n : j < k => StrategyRank(endpoint(j)) < StrategyRank(endpoint(k))
        \* a strategy is tried when the one before it has failed
        /\ \A k \in 2..n :
              \/ answer(k - 1) = "http_error"
              \/ endpoint(k - 1) = "metadata" /\ answer(k - 1) \in {"ok", "ok_no_url"}
        /\ \A k \in 2..n :
              endpoint(k) = "metadata_url"
              <=> (endpoint(k - 1) = "metadata" /\ answer(k - 1) = "ok")
        \* the file is written from the first response that succeeds
        /\ ret.outcome = "ok"
              => /\ n >= 1 /\ answer(n) = "ok" /\ ret.source = endpoint(n)
                 /\ ret.opened
                 /\ files[DownloadTarget].content = args.attachment.id
        \* the call fails only when the last strategy has failed
        /\ ret.outcome \notin {"ok", "ConnectionError"}
              => \/ n >= 1 /\ endpoint(n) = LastStrategy /\ answer(n) = "http_error"
                 \* no strategy applies: neither a URL nor a card id
                 \/ /\ n = 0 /\ args.attachment.url = "" /\ args.card_id = ""
                    /\ ret.outcome = "ValueError"

\* C26: download_attachment tries its strategies in a fixed order, each
\* after the one before it failed with an HTTP error: the URL of the
\* attachment as it is when it has key and token; else, with a card id, the
\* metadata endpoint and the URL it returns, then the download endpoint
\* with the encoded name, then with the plain name; without a card id the
\* URL of the attachment with key and token added.  The file is written
\* from the first response that succeeds, and the call fails only if the
\* last strategy that applies fails.
C26_StrategiesAreTriedInOrder ==
    (pc = "called" /\ args.attachment.id # "") => StrategiesInOrder

\* The part of C26 that holds: the same for every URL but the one that has
\* a key and no token.
C26_StrategiesButForKeyOnlyUrl ==
    (pc = "called" /\ args.attachment.id # "" /\ args.attachment.url # "key")
    => StrategiesInOrder

-----------------------------------------------------------------------------
(* Properties of the workspace name of sync_board.                         *)

\* The segment of a card's path that stands where the template has {org}.
OrgSegment(path, target) ==
    LET start == 2 + IndexOf(target, "{org}")
        stop  == CHOOSE j \in start..(Len(path) + 1) :
                    /\ j = Len(path) + 1 \/ path[j] = "/"
                    /\ \A k \in start..(j - 1) : path[k] # "/"
    IN  SubSeq(path, start, stop - 1)

\* The organization display name that get_board has fetched.
FetchedName ==
    LET board == remote.boards[st.board_id]
    IN  IF board.org_id # "" /\ st.org_ok THEN board.org_name ELSE <<>>

\* A sync_board call that has resolved its names.
NamesResolved ==
    /\ st.cmd = "sync"
    /\ st.configured
    /\ pc \in {"lists", "cards", "returned"}

\* C27: in sync_board the workspace name used for {org} and for the card is
\* the one the caller supplied, as given; otherwise the workspace_name of
\* the board's configuration when it declares one; otherwise the fetched
\* display name of the organization; and when that is empty the {org}
\* segment of the path is "unknown".
C27_WorkspaceNamePrecedence ==
    NamesResolved
    => LET entry    == get_board_config(config, st.board_id).entry
           supplied == st.given[2]
           declared == IF "workspace_name" \in DOMAIN entry
                       THEN entry["workspace_name"] ELSE <<>>
       IN  /\ supplied # <<>> => st.workspace_name = supplied
           /\ (supplied = <<>> /\ declared # <<>>) => st.workspace_name = declared
           /\ (supplied = <<>> /\ declared = <<>>) => st.workspace_name = FetchedName
           /\ last.path # <<>>
                 => OrgSegment(last.path, st.target)
                      = IF st.workspace_name = <<>> THEN Unknown
                        ELSE sanitize_file_name(st.workspace_name)

\* A card has been written under the name the caller supplied, for a board
\* whose configuration declares another workspace name and whose
\* organization has a third.
C27_Witness ==
    /\ NamesResolved
    /\ st.given[2] = <<"O", "2">>
    /\ Get(get_board_config(config, st.board_id).entry, "workspace_name", <<>>)
         = <<"A", " ", "B">>
    /\ FetchedName = <<"O">>
    /\ last.outcome = "synced"
    /\ last.path \in DOMAIN files
    /\ OrgSegment(last.path, st.target) = <<"o", "2">>

-----------------------------------------------------------------------------
(* Properties of the counters of sync_board.                               *)

\* The number of cards the remote service has returned to the call: those
\* of all lists of the board, and none when the board is not synced.
CardsReturned ==
    IF st.configured
    THEN Cardinality(CardsOf(remote.boards[st.board_id].lists))
    ELSE 0

\* What the call returns is the sum it should be.
CountsAddUp ==
    (st.cmd = "sync" /\ pc = "returned")
    => /\ result.total_cards = result.synced_cards + result.skipped_cards
       /\ result.total_cards = CardsReturned

\* At every point the cards counted as synced or skipped are among those
\* counted in the total, which are among the cards of the board.
CountsAreBounded ==
    st.cmd = "sync"
    => /\ st.synced_cards + st.skipped_cards <= st.total_cards
       /\ st.total_cards <= CardsReturned

\* The iteration for a card counts it in the total, and in one of synced
\* and skipped unless it raises.
CountsOnce ==
    (pc = "cards" /\ st' # st)
    => /\ st'.total_cards = st.total_cards + 1
       /\ st'.synced_cards \in {st.synced_cards, st.synced_cards + 1}
       /\ st'.skipped_cards \in {st.skipped_cards, st.skipped_cards + 1}
       /\ IF pc' = "raised"
          THEN /\ st'.synced_cards = st.synced_cards
               /\ st'.skipped_cards = st.skipped_cards
          ELSE (st'.synced_cards - st.synced_cards)
               + (st'.skipped_cards - st.skipped_cards) = 1

\* C28: when sync_board returns normally, total_cards is the sum of
\* synced_cards and skipped_cards and is the number of cards the remote
\* service returned over all lists of the board; at every point of the run
\* synced_cards + skipped_cards is at most total_cards, and each card is
\* counted in exactly one of synced and skipped.
C28_CountersAddUp ==
    /\ [](CountsAddUp /\ CountsAreBounded)
    /\ [][CountsOnce]_vars

\* A call has returned for a board with two cards, one of them written and
\* the other skipped.
C28_Witness ==
    /\ st.cmd = "sync"
    /\ pc = "returned"
    /\ CardsReturned = 2
    /\ result.synced_cards = 1
    /\ result.skipped_cards = 1

-----------------------------------------------------------------------------
(* Properties of the assets of sync_board.                                 *)

AssetFiles(fs) == {p \in DOMAIN fs : fs[p].kind = "asset"}

\* The assets of the file system before are in files as they were.
AssetsKept(before) ==
    \A p \in AssetFiles(before) : p \in DOMAIN files /\ files[p] = before[p]

\* C29: within a sync_board run no download overwrites or modifies a file
\* that was in the assets folder: every step leaves each asset as it was,
\* so the assets of the earlier attachments and cards of the run, and those
\* of an earlier run, are unchanged, and a card that is synced again gets
\* new, suffixed asset files.
C29_DownloadsOverwriteNoAsset ==
    /\ [](st.cmd = "sync" => AssetsKept(st.files0) /\ AssetsKept(last.before))
    /\ [][\A p \in AssetFiles(files) :
             p \in DOMAIN files' /\ files'[p] = files[p]]_vars

\* The second run has synced again a card with two uploads of the same file
\* name: the two assets of the first run are there, and two more.
C29_Witness ==
    /\ st.cmd = "sync"
    /\ st.run = 2
    /\ last.outcome = "synced"
    /\ Cardinality(last.downloaded) = 2
    /\ Cardinality(AssetFiles(st.files0)) = 2
    /\ AssetsKept(st.files0)
    /\ Cardinality(AssetFiles(files)) = 4

-----------------------------------------------------------------------------
(* Properties of the file download_attachment writes.                      *)

\* The call has ended, and every request it sent was answered with a status:
\* success or an HTTP error.
AnsweredCall ==
    /\ pc = "called"
    /\ \A k \in 1..Len(ret.reqs) : args.http[ret.reqs[k].endpoint] # "conn_error"

\* The call has written the target from a response that succeeded, or has
\* raised an HTTP or a value error and left the target alone.
WrittenOrRaised ==
    \/ /\ ret.outcome = "ok"
       /\ ret.opened
       /\ ret.source \in {ret.reqs[k].endpoint : k \in 1..Len(ret.reqs)}
       /\ args.http[ret.source] = "ok"
       /\ Exists(files, DownloadTarget)
       /\ files[DownloadTarget].content = args.attachment.id
    \/ /\ ret.outcome \in {"HTTPError", "ValueError"}
       /\ ~ret.opened
       /\ ~Exists(files, DownloadTarget)

\* C30: download_attachment comes to write the file only with a response
\* that succeeded: whatever the URL (none, with key, with token, with both,
\* with neither), the card id (given or not) and the answers to the
\* requests, the call writes the target from a successful response or
\* raises an HTTP or a value error; it does not create or truncate the
\* target when no request succeeded, and it fails for no other reason.
C30_WritesOnlyFromASuccessfulResponse ==
    AnsweredCall => WrittenOrRaised

\* The part of C30 that holds: the same for every URL but the one that has
\* a key and no token.
C30_WritesButForKeyOnlyUrl ==
    (AnsweredCall /\ args.attachment.url # "key") => WrittenOrRaised

=============================================================================
